---- MODULE Spec2Model ----
(***************************************************************************)
(* Model of the geo-target resolver of src/src/geo_targets.py: the         *)
(* disk-backed cache (load_cache, save_cache), the per-name resolution     *)
(* with its tiered match policy (resolve_country_to_geo_target) and the    *)
(* batch loop (resolve_countries).                                         *)
(*                                                                         *)
(* Python values are records tagged with their Python type in field t, so  *)
(* that a cache file holding any JSON value (an object, null, a number, a  *)
(* string, a list) can be loaded and the operations `in`, `[]`, `[]=` and  *)
(* truthiness behave on it as they do in Python.                           *)
(***************************************************************************)
EXTENDS Integers, Sequences, FiniteSets, TLC

VARIABLES
    file,          \* the persistent storage CACHE_FILE: [kind, val]
    names,         \* country_names, the input list of the batch
    pc,            \* position of resolve_countries: start, loop, done, raised
    i,             \* 1-based index of the next name of the for loop
    cache,         \* the in-memory cache of the batch
    geo_targets,   \* the result list being built
    exc,           \* the exception that escaped resolve_countries ("none" if none)
    saved,         \* outcome of save_cache: pending, ok, ioerror, raised
    loadedFrom,    \* history: kind of the storage when load_cache read it
    loaded,        \* history: the cache as load_cache returned it
    calls,         \* history: names passed to suggest_geo_target_constants, in order
    outcome,       \* history: per processed name, what per-name resolution returned
    suggestions,   \* the candidate list under test (match policy specification)
    picked,        \* the resource name the match policy chose for `suggestions`
    blog_content,  \* categorize_keywords_with_gpt52: the blog text passed in
    csv_content,   \* categorize_keywords_with_gpt52: the keyword CSV passed in
    client,        \* how the OpenAI client behaves: [responses, chat, response]
    llm_calls,     \* history: the client methods called, in order
    response,      \* the response object the client returned: [shape, texts]
    result,        \* what categorize_keywords_with_gpt52 returned
    tier,          \* history: the step of the function that produced `result`
    customer_id,   \* generate_keyword_ideas: the customer id passed in
    website_url,   \* generate_keyword_ideas: the seed URL passed in
    geo_target_constants,  \* generate_keyword_ideas: the geo targets passed in
    max_results,   \* generate_keyword_ideas: the most ideas to return
    ads,           \* how the Google Ads client behaves: [setup, seed, remote]
    validated_geo_targets, \* the geo targets lines 64-88 kept
    request,       \* the GenerateKeywordIdeasRequest being built
    issued,        \* history: the requests sent to the keyword-idea service
    results,       \* what generate_keyword_ideas returned
    failure,       \* what generate_keyword_ideas raised
    session,       \* st.session_state: [keyword_ideas, csv_content, gpt_results]
    inputs,        \* what the page holds at the click: [blog_content, website_url, env]
    run,           \* the locals of the run under way: [geo_targets, keyword_ideas]
    events,        \* history: the calls of the run under way or last ended, in order
    ended,         \* history: how the last run ended
    gpt_source,    \* history: the keyword ideas session.gpt_results was computed for
    runs,          \* history: the clicks on "Generate Keywords" so far
    batches,       \* the resolve_countries batches of two workers on one cache file
    launched,      \* history: the batches started so far
    overlap,       \* history: a batch has loaded while another was under way
    persisted,     \* history: the entries resolved by batches whose save succeeded
    spoiled,       \* history: a failed write has left the file truncated
    top            \* a call of get_top_keywords_by_volume: [keyword_ideas, top_k,
                   \* given, returned]

vars == <<file, names, pc, i, cache, geo_targets, exc, saved, loadedFrom, loaded,
          calls, outcome, suggestions, picked,
          blog_content, csv_content, client, llm_calls, response, result, tier,
          customer_id, website_url, geo_target_constants, max_results, ads,
          validated_geo_targets, request, issued, results, failure,
          session, inputs, run, events, ended, gpt_source, runs,
          batches, launched, overlap, persisted, spoiled, top>>

geoVars == <<file, names, i, cache, geo_targets, exc, saved, loadedFrom, loaded,
             calls, outcome>>

catVars == <<blog_content, csv_content, client, llm_calls, response, result, tier>>

ideaVars == <<customer_id, website_url, geo_target_constants, max_results, ads,
              validated_geo_targets, request, issued, results, failure>>

appVars == <<session, inputs, run, events, ended, gpt_source, runs>>

pairVars == <<batches, launched, overlap, persisted, spoiled>>

\* the variables categorize_keywords_with_gpt52 never touches
catRest == <<geoVars, suggestions, picked, ideaVars, appVars, pairVars, top>>

\* the variables generate_keyword_ideas never touches
ideaRest == <<geoVars, suggestions, picked, catVars, appVars, pairVars, top>>

\* the variables of the functions the page calls
appRest == <<geoVars, suggestions, picked, catVars, ideaVars, pairVars, top>>

\* the variables resolve_countries never touches
restVars == <<suggestions, picked, catVars, ideaVars, appVars, pairVars, top>>

\* the variables two batches on one file never touch: all but the file
pairRest == <<names, i, cache, geo_targets, exc, saved, loadedFrom, loaded, calls,
              outcome, suggestions, picked, catVars, ideaVars, appVars, top>>

\* the variables a call of get_top_keywords_by_volume never touches: all but
\* its own
topRest == <<geoVars, suggestions, picked, catVars, ideaVars, appVars, pairVars>>

----------------------------------------------------------------------------
(* Bounds *)

MaxNames == 3        \* longest input list
MaxEntries == 2      \* most entries of a cache file that holds an object
MaxSuggestions == 2  \* longest candidate list the service returns within a batch
MaxCandidates == 3   \* longest candidate list of the match-policy specification

----------------------------------------------------------------------------
(* Python values *)

PyNone == [t |-> "NoneType"]
PyInt(n) == [t |-> "int", n |-> n]
PyStr(s) == [t |-> "str", s |-> s]
PyList(l) == [t |-> "list", l |-> l]
PyDict(d) == [t |-> "dict", d |-> d]

EmptyDict == PyDict(<<>>)

\* bool(v), as the `if geo_target:` test of resolve_countries evaluates it
Truthy(v) ==
    CASE v.t = "NoneType" -> FALSE
      [] v.t = "int" -> v.n # 0
      [] v.t = "str" -> v.s # ""
      [] v.t = "list" -> v.l # <<>>
      [] v.t = "dict" -> DOMAIN v.d # {}

\* A string holding a lone surrogate (JSON "\ud800"): json.load accepts it, the
\* utf-8 encoder of the file opened by save_cache rejects it.
LoneSurrogate == "\\ud800"

RECURSIVE Unencodable(_)
Unencodable(v) ==
    CASE v.t = "str" -> v.s = LoneSurrogate
      [] v.t = "dict" -> \E k \in DOMAIN v.d : Unencodable(v.d[k])
      [] v.t = "list" -> \E k \in DOMAIN v.l : Unencodable(v.l[k])
      [] OTHER -> FALSE

\* a in b for the strings of this model: none is a proper substring of another,
\* so containment is equality (and the empty string is contained in every string).
IsSubstring(a, b) == a = b \/ a = ""

----------------------------------------------------------------------------
(* The inputs *)

PlaceNames == {"Canada", "Fakeland"}
CacheKeys == PlaceNames \cup {"Jamaica"}

ResourceNames == {"geoTargetConstants/2124", "geoTargetConstants/2840"}
TargetTypes == {"COUNTRY", "PROVINCE", "CITY"}

\* values a cache file may hold for a key: an identifier, the empty string,
\* null, and a string the utf-8 encoder rejects
CachedValues ==
    {PyStr("geoTargetConstants/2124"), PyStr(""), PyNone, PyStr(LoneSurrogate)}

Dicts ==
    UNION {[K -> CachedValues] : K \in {S \in SUBSET CacheKeys : Cardinality(S) <= MaxEntries}}

\* well-formed JSON values a cache file may hold
JsonValues ==
    {PyDict(d) : d \in Dicts}
        \cup {PyNone, PyInt(5), PyStr("Canada"), PyStr("n/a"),
              PyList(<<>>), PyList(<<PyStr("Canada")>>)}

\* The storage: absent, present but failing to open or read (OSError), bytes that
\* are not utf-8, text that is not JSON, or a JSON value.
Files ==
    {[kind |-> k, val |-> PyNone] : k \in {"missing", "unreadable", "badutf8", "malformed"}}
        \cup {[kind |-> "json", val |-> v] : v \in JsonValues}

SeqsUpTo(S, n) == UNION {[1..k -> S] : k \in 0..n}

NameLists == SeqsUpTo(PlaceNames, MaxNames)

Candidates == [target_type : TargetTypes, resource_name : ResourceNames]

ServiceExceptions == {"GoogleAdsException", "Exception"}

----------------------------------------------------------------------------
(* resolve_country_to_geo_target: the match policy, lines 58-93 *)

\* `kw in target_type_str` (lines 68 and 82) for the target types of the model
TypeMatches(target_type, kw) == IsSubstring(kw, target_type)

\* index of the first suggestion from position k on whose type matches kw, 0 if none:
\* one of the two for loops of lines 60-71 and 74-85
RECURSIVE FirstOfType(_, _, _)
FirstOfType(sugg, kw, k) ==
    IF k > Len(sugg) THEN 0
    ELSE IF TypeMatches(sugg[k].target_type, kw) THEN k
    ELSE FirstOfType(sugg, kw, k + 1)

\* the tiers of lines 60-85 in the other order
BestMatchProvinceFirst(sugg) ==
    LET c == FirstOfType(sugg, "COUNTRY", 1)
        p == FirstOfType(sugg, "PROVINCE", 1)
    IN  IF p # 0 THEN sugg[p].resource_name
        ELSE IF c # 0 THEN sugg[c].resource_name
        ELSE sugg[1].resource_name

\* the resource name chosen for a non-empty suggestion list
BestMatch(sugg) ==
    LET c == FirstOfType(sugg, "COUNTRY", 1)
        p == FirstOfType(sugg, "PROVINCE", 1)
    IN  IF c # 0 THEN sugg[c].resource_name
        ELSE IF p # 0 THEN sugg[p].resource_name
        ELSE sugg[1].resource_name

----------------------------------------------------------------------------
(* The cache operations of resolve_country_to_geo_target *)

\* whether `country_name in cache` (line 43) raises TypeError
InRaises(c) == c.t \in {"NoneType", "int"}

\* the lookup of line 43 never finding the name
InCacheNever(name, c) == FALSE

\* `country_name in cache` (line 43), for a cache on which it does not raise
InCache(name, c) ==
    CASE c.t = "dict" -> name \in DOMAIN c.d
      [] c.t = "str" -> IsSubstring(name, c.s)
      [] c.t = "list" -> \E k \in DOMAIN c.l : c.l[k] = PyStr(name)
      [] OTHER -> FALSE

\* whether `cache[country_name]` (lines 44, 70, 84, 92) raises TypeError
ItemRaises(c) == c.t # "dict"

\* cache[country_name] = resource_name (lines 70, 84, 92) on a dict
Put(c, name, v) ==
    PyDict([n \in DOMAIN c.d \cup {name} |-> IF n = name THEN v ELSE c.d[n]])

\* lines 120-121 skipping an identifier already collected
CollectDistinct(targets, geo_target) ==
    IF Truthy(geo_target) /\ \A k \in DOMAIN targets : targets[k] # geo_target
    THEN Append(targets, geo_target)
    ELSE targets

\* lines 120-121 without the test of line 120
CollectAll(targets, geo_target) == Append(targets, geo_target)

\* lines 120-121 of resolve_countries
Collect(targets, geo_target) ==
    IF Truthy(geo_target) THEN Append(targets, geo_target) ELSE targets

Returned(name, kind, ret) == [name |-> name, kind |-> kind, ret |-> ret]

----------------------------------------------------------------------------
(* The batch: resolve_countries, lines 108-126 *)

matchIdle == suggestions = <<>> /\ picked = PyNone

\* no value returned yet
NotReturned == [t |-> "unset"]

\* no response object received yet
NoResponse == [shape |-> "none", texts |-> <<>>]

catIdle ==
    /\ blog_content = ""
    /\ csv_content = ""
    /\ client = [responses |-> "absent", chat |-> "raises", response |-> NoResponse]
    /\ llm_calls = <<>>
    /\ response = NoResponse
    /\ result = NotReturned
    /\ tier = "none"

\* no request built yet
NoRequest == [customer_id |-> "", geo_target_constants |-> <<>>,
              url_seed |-> PyNone, site_seed |-> PyNone]

\* nothing raised
NoFailure == [type |-> "none"]

ideaIdle ==
    /\ customer_id = PyNone
    /\ website_url = ""
    /\ geo_target_constants = <<>>
    /\ max_results = 0
    /\ ads = [setup |-> "raises", seed |-> "none", remote |-> [kind |-> "none"]]
    /\ validated_geo_targets = <<>>
    /\ request = NoRequest
    /\ issued = <<>>
    /\ results = NotReturned
    /\ failure = NoFailure

\* st.session_state as lines 66-71 leave it
FreshSession == [keyword_ideas |-> <<>>, csv_content |-> "", gpt_results |-> PyNone]

\* the locals of a run before it has called anything
NoRun == [geo_targets |-> <<>>, keyword_ideas |-> <<>>, top_csv |-> ""]

appIdle ==
    /\ session = FreshSession
    /\ inputs = [blog_content |-> "", website_url |-> "", env |-> FALSE]
    /\ run = NoRun
    /\ events = <<>>
    /\ ended = "never"
    /\ gpt_source = <<>>
    /\ runs = 0

Workers == {"first", "second"}

\* a worker that has called nothing yet
NoBatch == [pc |-> "idle", names |-> <<>>, i |-> 1, cache |-> EmptyDict,
            geo_targets |-> <<>>, fresh |-> {}, saved |-> "pending"]

\* no call of get_top_keywords_by_volume made
NoTop == [keyword_ideas |-> <<>>, top_k |-> 0, given |-> <<>>, returned |-> NotReturned]

topIdle == top = NoTop

pairIdle ==
    /\ batches = [w \in Workers |-> NoBatch]
    /\ launched = 0
    /\ overlap = FALSE
    /\ persisted = {}
    /\ spoiled = FALSE

Init ==
    /\ file \in Files
    /\ names \in NameLists
    /\ pc = "start"
    /\ i = 1
    /\ cache = PyNone
    /\ geo_targets = <<>>
    /\ exc = "none"
    /\ saved = "pending"
    /\ loadedFrom = "none"
    /\ loaded = PyNone
    /\ calls = <<>>
    /\ outcome = <<>>
    /\ matchIdle
    /\ catIdle
    /\ ideaIdle
    /\ appIdle
    /\ pairIdle
    /\ topIdle

\* load_cache never reading the file
LoadNothing(f) == EmptyDict

\* what load_cache returns for a storage on which it does not raise (lines 15-23):
\* {} when the file is absent, on OSError and on JSONDecodeError
LoadResult(f) == IF f.kind = "json" THEN f.val ELSE EmptyDict

\* whether load_cache raises: decoding bytes that are not utf-8 raises
\* UnicodeDecodeError, which is neither json.JSONDecodeError nor IOError (line 21)
LoadRaises(f) == f.kind = "badutf8"

\* lines 115-116: cache = load_cache(); geo_targets = []
LoadCache ==
    /\ pc = "start"
    /\ loadedFrom' = file.kind
    /\ IF LoadRaises(file)
       THEN /\ pc' = "raised"
            /\ exc' = "UnicodeDecodeError"
            /\ UNCHANGED <<cache, loaded>>
       ELSE /\ pc' = "loop"
            /\ cache' = LoadResult(file)
            /\ loaded' = LoadResult(file)
            /\ exc' = exc
    /\ UNCHANGED <<file, names, i, geo_targets, saved, calls, outcome, restVars>>

\* the name the for loop of line 118 is at
AtName == pc = "loop" /\ i <= Len(names)

\* one iteration of the loop ends: lines 119-121 with what per-name resolution returned
EndIteration(kind, ret) ==
    /\ geo_targets' = Collect(geo_targets, ret)
    /\ outcome' = Append(outcome, Returned(names[i], kind, ret))
    /\ i' = i + 1
    /\ pc' = "loop"
    /\ UNCHANGED <<file, names, exc, saved, loadedFrom, loaded, restVars>>

\* lines 43-44 raise TypeError outside the try block: `in` on None or a number,
\* or `cache[country_name]` on a string or a list that contains the name
CacheLookupRaises ==
    /\ AtName
    /\ \/ InRaises(cache)
       \/ ~InRaises(cache) /\ InCache(names[i], cache) /\ ItemRaises(cache)
    /\ pc' = "raised"
    /\ exc' = "TypeError"
    /\ UNCHANGED <<file, names, i, cache, geo_targets, saved, loadedFrom, loaded,
                   calls, outcome, restVars>>

\* lines 43-44: the name is in the cache, its value is returned
CacheHit ==
    /\ AtName
    /\ ~InRaises(cache)
    /\ InCache(names[i], cache)
    /\ ~ItemRaises(cache)
    /\ EndIteration("hit", cache.d[names[i]])
    /\ UNCHANGED <<cache, calls>>

\* the name is not in the cache: lines 47-55 query the service
CacheMiss == AtName /\ ~InRaises(cache) /\ ~InCache(names[i], cache)

\* the write of lines 70, 84, 92 left out
RememberNothing(c, name, resource_name) == c

\* the write of lines 70, 84, 92 into a dict
Remember(c, name, resource_name) == Put(c, name, resource_name)

\* lines 58-93: the service answers with candidates, the best is cached and returned
Resolved ==
    /\ CacheMiss
    /\ ~ItemRaises(cache)
    /\ \E sugg \in SeqsUpTo(Candidates, MaxSuggestions) \ {<<>>} :
          LET resource_name == PyStr(BestMatch(sugg))
          IN  /\ cache' = Remember(cache, names[i], resource_name)
              /\ EndIteration("fresh", resource_name)
    /\ calls' = Append(calls, names[i])

\* lines 58-93 on a cache that is a string or a list: the write raises TypeError
\* inside the try block, the handler of lines 103-105 returns None
ResolvedWriteRaises ==
    /\ CacheMiss
    /\ ItemRaises(cache)
    /\ \E sugg \in SeqsUpTo(Candidates, MaxSuggestions) \ {<<>>} :
          EndIteration("error", PyNone)
    /\ calls' = Append(calls, names[i])
    /\ UNCHANGED cache

\* lines 95-97 recording the unresolved name in the cache
NoSuggestionsRemembered ==
    /\ CacheMiss
    /\ EndIteration("empty", PyNone)
    /\ calls' = Append(calls, names[i])
    /\ cache' = IF ItemRaises(cache) THEN cache ELSE Put(cache, names[i], PyNone)

\* lines 95-97: the service answers with no candidate
NoSuggestions ==
    /\ CacheMiss
    /\ EndIteration("empty", PyNone)
    /\ calls' = Append(calls, names[i])
    /\ UNCHANGED cache

\* the exception e of the service left uncaught
ServiceFailureEscapes(e) ==
    /\ pc' = "raised"
    /\ exc' = e
    /\ UNCHANGED <<file, names, i, cache, geo_targets, saved, loadedFrom, loaded,
                   outcome, restVars>>

\* what resolve_country_to_geo_target does with an exception e of the service:
\* both handlers (lines 99-102, 103-105) return None
ServiceFailure(e) ==
    /\ EndIteration("error", PyNone)
    /\ UNCHANGED cache

\* lines 99-105: the service raises
ServiceRaises ==
    /\ CacheMiss
    /\ \E e \in ServiceExceptions : ServiceFailure(e)
    /\ calls' = Append(calls, names[i])

\* line 124 moved into the loop of line 118
AtAnyName == pc = "loop"

\* the loop is over: line 124 is reached
AtSave == pc = "loop" /\ i > Len(names)

\* what json.dump(cache, f) leaves in the storage (lines 29-30)
Written(c) == [kind |-> "json", val |-> c]

\* a storage whose write was cut short: the file was truncated by open(.., "w")
Truncated == [kind |-> "malformed", val |-> PyNone]

\* lines 124-126, the write succeeds
SaveCache ==
    /\ AtSave
    /\ ~Unencodable(cache)
    /\ file' = Written(cache)
    /\ saved' = "ok"
    /\ pc' = "done"
    /\ UNCHANGED <<names, i, cache, geo_targets, exc, loadedFrom, loaded, calls, outcome,
                   restVars>>

\* lines 28-32, open or write raises OSError: the warning is printed, line 126 returns
SaveFailsIO ==
    /\ AtSave
    /\ file' \in {file, Truncated}
    /\ saved' = "ioerror"
    /\ pc' = "done"
    /\ UNCHANGED <<names, i, cache, geo_targets, exc, loadedFrom, loaded, calls, outcome,
                   restVars>>

\* lines 28-32, the cache holds a string the utf-8 encoder rejects: the write
\* raises UnicodeEncodeError, which `except IOError` does not catch
SaveRaises ==
    /\ AtSave
    /\ Unencodable(cache)
    /\ file' = Truncated
    /\ saved' = "raised"
    /\ pc' = "raised"
    /\ exc' = "UnicodeEncodeError"
    /\ UNCHANGED <<names, i, cache, geo_targets, loadedFrom, loaded, calls, outcome,
                   restVars>>

Next ==
    \/ LoadCache
    \/ CacheLookupRaises
    \/ CacheHit
    \/ Resolved
    \/ ResolvedWriteRaises
    \/ NoSuggestions
    \/ ServiceRaises
    \/ SaveCache
    \/ SaveFailsIO
    \/ SaveRaises

Spec == Init /\ [][Next]_vars

----------------------------------------------------------------------------
(* The match policy on its own: lines 58-97 applied to one response *)

InitMatch ==
    /\ suggestions \in SeqsUpTo(Candidates, MaxCandidates)
    /\ picked = PyNone
    /\ pc = "match"
    /\ file = [kind |-> "missing", val |-> PyNone]
    /\ names = <<>>
    /\ i = 1
    /\ cache = EmptyDict
    /\ geo_targets = <<>>
    /\ exc = "none"
    /\ saved = "pending"
    /\ loadedFrom = "none"
    /\ loaded = PyNone
    /\ calls = <<>>
    /\ outcome = <<>>
    /\ catIdle
    /\ ideaIdle
    /\ appIdle
    /\ pairIdle
    /\ topIdle

\* lines 58-97: the resource name returned for the response, None for an empty one
PickBest ==
    /\ pc = "match"
    /\ picked' = IF suggestions # <<>> THEN PyStr(BestMatch(suggestions)) ELSE PyNone
    /\ pc' = "matched"
    /\ UNCHANGED <<suggestions, geoVars, catVars, ideaVars, appVars, pairVars, top>>

NextMatch == PickBest

SpecMatch == InitMatch /\ [][NextMatch]_vars

\* no batch under way
geoIdle ==
    /\ file = [kind |-> "missing", val |-> PyNone]
    /\ names = <<>>
    /\ i = 1
    /\ cache = EmptyDict
    /\ geo_targets = <<>>
    /\ exc = "none"
    /\ saved = "pending"
    /\ loadedFrom = "none"
    /\ loaded = PyNone
    /\ calls = <<>>
    /\ outcome = <<>>

----------------------------------------------------------------------------
(* Vocabulary of the properties *)

Range(s) == {s[k] : k \in DOMAIN s}

Count(x, s) == Cardinality({k \in DOMAIN s : s[k] = x})

Min(S) == CHOOSE k \in S : \A j \in S : k <= j

\* the keys of a cache that is a JSON object
Keys(c) == IF c.t = "dict" THEN DOMAIN c.d ELSE {}

\* positions of the processed names whose resolution ended as one of `kinds`
Ended(kinds) == {k \in DOMAIN outcome : outcome[k].kind \in kinds}

Failed == Ended({"empty", "error"})

\* the values per-name resolution returned that are truthy, in input order
RECURSIVE TruthyRets(_)
TruthyRets(o) ==
    IF o = <<>> THEN <<>>
    ELSE LET rest == TruthyRets(SubSeq(o, 1, Len(o) - 1))
             last == o[Len(o)].ret
         IN  IF Truthy(last) THEN Append(rest, last) ELSE rest

AllProcessed ==
    /\ Len(outcome) = Len(names)
    /\ \A k \in DOMAIN outcome : outcome[k].name = names[k]

----------------------------------------------------------------------------
(* Properties of the resolver *)

\* C1 (as claimed): when the batch returns, for every input name that is a key of
\* the cache loaded at its start, the service was never called for that name and
\* the result list contains the key's cached value, whatever the value is.
C1_CachedValueAlwaysInResult ==
    pc = "done" =>
    \A k \in DOMAIN outcome :
        LET n == outcome[k].name
        IN  n \in Keys(loaded) =>
                /\ n \notin Range(calls)
                /\ loaded.d[n] \in Range(geo_targets)

\* C1 (amended): for every processed input name that is a key of the loaded
\* cache, the service is never called for that name and per-name resolution
\* returns the cached value unchanged; the result list contains the value when
\* it is truthy, and a falsy cached value (empty string, null) is left out.
C1_CachedServedWithoutCall ==
    \A k \in DOMAIN outcome :
        LET n == outcome[k].name
        IN  n \in Keys(loaded) =>
                /\ n \notin Range(calls)
                /\ outcome[k].kind = "hit"
                /\ outcome[k].ret = loaded.d[n]
                /\ Truthy(loaded.d[n]) => loaded.d[n] \in Range(geo_targets)
                /\ ~Truthy(loaded.d[n]) => loaded.d[n] \notin Range(geo_targets)

\* C1 witness: a finished batch that served one name from the cache into the
\* result and left the empty cached value of another name out of it.
C1_Witness ==
    /\ pc = "done"
    /\ \E j, k \in DOMAIN outcome :
          /\ outcome[j].name \in Keys(loaded)
          /\ outcome[k].name \in Keys(loaded)
          /\ outcome[j].ret = PyStr("geoTargetConstants/2124")
          /\ outcome[k].ret = PyStr("")
    /\ geo_targets = <<PyStr("geoTargetConstants/2124")>>
    /\ calls = <<>>

\* number of queries of the service for name n
CallsFor(n) == Count(n, calls)

\* C2 (as claimed): within one batch the service is queried at most once per
\* distinct place name, whether or not the first query resolved the name.
C2_AtMostOneCallPerName == \A n \in PlaceNames : CallsFor(n) <= 1

\* C2 (amended): once a query has resolved a name, every later occurrence of the
\* name in the batch is served from the cache, so at most one query per name
\* resolves it; every occurrence that is not served from the cache (the name's
\* earlier queries returned no candidate or failed) queries the service once.
C2_NoCallAfterResolution ==
    /\ \A j, k \in DOMAIN outcome :
          (j < k /\ outcome[j].name = outcome[k].name /\ outcome[j].kind = "fresh")
              => outcome[k].kind = "hit"
    /\ \A n \in PlaceNames :
          /\ Cardinality({k \in Ended({"fresh"}) : outcome[k].name = n}) <= 1
          /\ CallsFor(n) =
                Cardinality({k \in Ended({"fresh", "empty", "error"}) : outcome[k].name = n})

\* C2 witness: a name given three times whose first query found nothing, whose
\* second query resolved it and whose third occurrence was a cache hit.
C2_Witness ==
    /\ pc = "done"
    /\ Len(outcome) = 3
    /\ outcome[1].name = outcome[2].name /\ outcome[2].name = outcome[3].name
    /\ outcome[1].kind = "empty" /\ outcome[2].kind = "fresh" /\ outcome[3].kind = "hit"
    /\ Len(calls) = 2

IsCountry(c) == c.target_type = "COUNTRY"
IsProvince(c) == c.target_type = "PROVINCE"

Positions(P(_)) == {k \in DOMAIN suggestions : P(suggestions[k])}

\* C3: for a non-empty candidate list the identifier chosen is that of the first
\* country-level candidate if there is one, otherwise that of the first
\* province-level candidate if there is one, otherwise that of the first candidate.
C3_TieredChoice ==
    (pc = "matched" /\ suggestions # <<>>) =>
        LET countries == Positions(IsCountry)
            provinces == Positions(IsProvince)
            winner == IF countries # {} THEN Min(countries)
                      ELSE IF provinces # {} THEN Min(provinces)
                      ELSE 1
        IN  picked = PyStr(suggestions[winner].resource_name)

\* C3 witness: a response listing a city, a province and a country in that
\* order, with differing identifiers, for which the country's was chosen.
C3_Witness ==
    /\ pc = "matched"
    /\ Len(suggestions) = 3
    /\ suggestions[1].target_type = "CITY"
    /\ suggestions[2].target_type = "PROVINCE"
    /\ suggestions[3].target_type = "COUNTRY"
    /\ suggestions[3].resource_name # suggestions[1].resource_name
    /\ picked = PyStr(suggestions[3].resource_name)

\* C4: an empty candidate list or an exception of the service for one name never
\* aborts the batch nor changes the cache, and every later name whose resolution
\* returns an identifier contributes it to the result; a batch that returns has
\* processed every name.
C4_FailureIsolated ==
    /\ exc \notin ServiceExceptions
    /\ (pc # "start" /\ loadedFrom # "badutf8" /\ Ended({"fresh"}) = {}) => cache = loaded
    /\ \A j \in Failed :
          /\ i > j
          /\ \A k \in DOMAIN outcome :
                (j < k /\ Truthy(outcome[k].ret)) => outcome[k].ret \in Range(geo_targets)
    /\ pc = "done" => AllProcessed

\* C4 witness: a finished batch whose first name made the service raise or
\* return nothing and whose later names were resolved freshly and from the cache.
C4_Witness ==
    /\ pc = "done"
    /\ Len(outcome) = 3
    /\ 1 \in Failed
    /\ outcome[2].kind = "fresh"
    /\ outcome[3].kind = "hit"
    /\ outcome[3].name # outcome[2].name
    /\ geo_targets = <<outcome[2].ret, outcome[3].ret>>

\* the cache a batch leaves behind: the loaded cache plus one entry per name
\* resolved freshly (a loaded cache that is no JSON object takes no entry)
FreshNames == {outcome[k].name : k \in Ended({"fresh"})}

FreshId(n) == outcome[CHOOSE k \in Ended({"fresh"}) : outcome[k].name = n].ret

LoadedPlusFresh ==
    IF loaded.t = "dict"
    THEN PyDict([n \in DOMAIN loaded.d \cup FreshNames |->
                    IF n \in DOMAIN loaded.d THEN loaded.d[n] ELSE FreshId(n)])
    ELSE loaded

\* C5: after a batch whose save succeeded, the storage holds exactly the cache
\* loaded at the start plus one entry name -> identifier per name resolved
\* freshly in the batch; a name that no query resolved and that was not loaded
\* is not a key of it.
C5_PersistedIsLoadedPlusFresh ==
    (pc = "done" /\ saved = "ok") =>
        /\ file = [kind |-> "json", val |-> LoadedPlusFresh]
        /\ \A k \in Failed :
              outcome[k].name \in Keys(file.val) =>
                  outcome[k].name \in Keys(loaded) \cup FreshNames

\* C5 witness: a saved batch that kept a loaded entry its input did not name,
\* added the entry of a freshly resolved name and none for a name that failed.
C5_Witness ==
    /\ pc = "done" /\ saved = "ok"
    /\ Keys(loaded) = {"Jamaica"}
    /\ "Fakeland" \in {outcome[k].name : k \in Failed}
    /\ FreshNames = {"Canada"}
    /\ Keys(file.val) = {"Jamaica", "Canada"}
    /\ file.val.d["Canada"] = PyStr("geoTargetConstants/2124")

\* C6 (as claimed): in the returned list the identifier of a resolved name that
\* occurs more than once in the input occurs exactly once.
C6_ResultDeduplicated ==
    pc = "done" =>
        \A j, k \in DOMAIN outcome :
            (j < k /\ outcome[j].name = outcome[k].name /\ Truthy(outcome[k].ret))
                => Count(outcome[k].ret, geo_targets) = 1

\* C6 (amended): the returned list is not deduplicated; an identifier occurs in
\* it once per input occurrence whose resolution returned it, so a name that
\* resolves at each of its occurrences contributes its identifier that many times.
C6_OneEntryPerResolvedOccurrence ==
    \A r \in Range(geo_targets) \cup {outcome[k].ret : k \in DOMAIN outcome} :
        Count(r, geo_targets) =
            IF Truthy(r) THEN Cardinality({k \in DOMAIN outcome : outcome[k].ret = r}) ELSE 0

\* C6 witness: a name given twice and resolved at both occurrences, returned twice.
C6_Witness ==
    /\ pc = "done"
    /\ names = <<"Canada", "Canada">>
    /\ outcome[1].kind = "fresh" /\ outcome[2].kind = "hit"
    /\ geo_targets = <<outcome[1].ret, outcome[1].ret>>

\* C7: the returned list is the input list with every name whose resolution
\* returned nothing deleted and every other name replaced by its identifier, in
\* input order, cache hits and fresh resolutions interleaved; it holds no
\* placeholder (None or empty entry).
C7_ResultIsResolvedInOrder ==
    /\ geo_targets = TruthyRets(outcome)
    /\ \A k \in DOMAIN geo_targets : Truthy(geo_targets[k])
    /\ pc = "done" => AllProcessed

\* C7 witness: a cache hit, a failure and a fresh resolution, in that order; the
\* result holds the two identifiers in input order and nothing for the failure.
C7_Witness ==
    /\ pc = "done"
    /\ Len(outcome) = 3
    /\ outcome[1].kind = "hit" /\ outcome[2].kind = "error" /\ outcome[3].kind = "fresh"
    /\ outcome[1].ret = PyStr("geoTargetConstants/2124")
    /\ outcome[3].ret = PyStr("geoTargetConstants/2840")
    /\ geo_targets = <<outcome[1].ret, outcome[3].ret>>

\* the states of the storage that give load_cache nothing to parse
Unusable == {"missing", "unreadable", "malformed", "badutf8"}

\* C8 (as claimed): when the storage is missing, unreadable or does not parse,
\* load_cache yields the empty cache and the batch goes on without failing.
C8_UnusableStorageIsEmptyCache ==
    (pc # "start" /\ loadedFrom \in Unusable) =>
        /\ loaded = EmptyDict
        /\ exc = "none"

\* C9 (as claimed): whatever well-formed JSON value the cache file holds and
\* whatever the service does, no exception escapes resolve_countries.
C9_NoExceptionEscapes == loadedFrom = "json" => pc # "raised"

\* C10 (as claimed): when the write of the cache fails, resolve_countries still
\* returns the list it computed and propagates no exception.
C10_SaveFailureHarmless ==
    saved \notin {"pending", "ok"} =>
        /\ pc = "done"
        /\ exc = "none"
        /\ geo_targets = TruthyRets(outcome)

----------------------------------------------------------------------------
(* Text: Python str as a TLA+ string, its characters numbered from 1 *)

Ch(s, k) == SubSeq(s, k, k)

Whitespace == {" ", "\n"}

\* s[k-1:], the text from position k on
From(s, k) == SubSeq(s, k, Len(s))

\* s[:n]
Take(s, n) == SubSeq(s, 1, IF n < Len(s) THEN n ELSE Len(s))

\* s.startswith(w) read at position k
StartsAt(s, k, w) == k + Len(w) - 1 <= Len(s) /\ SubSeq(s, k, k + Len(w) - 1) = w

\* first position from k on that holds no whitespace (Len(s) + 1 if none)
RECURSIVE SkipWs(_, _)
SkipWs(s, k) ==
    IF k <= Len(s) /\ Ch(s, k) \in Whitespace THEN SkipWs(s, k + 1) ELSE k

\* last position up to k that holds no whitespace (0 if none)
RECURSIVE SkipWsBack(_, _)
SkipWsBack(s, k) ==
    IF k >= 1 /\ Ch(s, k) \in Whitespace THEN SkipWsBack(s, k - 1) ELSE k

\* s.strip()
Strip(s) == SubSeq(s, SkipWs(s, 1), SkipWsBack(s, Len(s)))

\* the positions from k on at which w occurs in s
Occurrences(s, w, k) == {j \in k..(Len(s) - Len(w) + 1) : StartsAt(s, j, w)}

\* s.find(w): position of the first occurrence of w from k on, 0 if none
Find(s, w, k) ==
    LET at == Occurrences(s, w, k)
    IN  IF at = {} THEN 0 ELSE CHOOSE j \in at : \A h \in at : j <= h

\* s.rfind(c) for a character c: position of its last occurrence up to k, 0 if none
RFind(s, c, k) ==
    LET at == {j \in Occurrences(s, c, 1) : j <= k}
    IN  IF at = {} THEN 0 ELSE CHOOSE j \in at : \A h \in at : j >= h

\* s.count(c) for a character c
CountCh(s, c) == Cardinality(Occurrences(s, c, 1))

\* s.replace(old, new): the occurrences of old, left to right, not overlapping
RECURSIVE Replace(_, _, _)
Replace(s, old, new) ==
    LET at == Find(s, old, 1)
    IN  IF at = 0 THEN s
        ELSE SubSeq(s, 1, at - 1) \o new \o Replace(From(s, at + Len(old)), old, new)

\* c * n for a character c
RECURSIVE Repeat(_, _)
Repeat(c, n) == IF n <= 0 THEN "" ELSE c \o Repeat(c, n - 1)

\* s.split("\n")
RECURSIVE SplitLines(_)
SplitLines(s) ==
    LET nl == Find(s, "\n", 1)
    IN  IF nl = 0 THEN <<s>>
        ELSE <<SubSeq(s, 1, nl - 1)>> \o SplitLines(From(s, nl + 1))

\* "\n".join(lines)
RECURSIVE JoinLines(_)
JoinLines(lines) ==
    IF lines = <<>> THEN ""
    ELSE IF Len(lines) = 1 THEN lines[1]
    ELSE lines[1] \o "\n" \o JoinLines(Tail(lines))

----------------------------------------------------------------------------
(* json.loads on the texts of the model: objects, arrays, strings without      *)
(* escapes, unsigned integers, null, true, false                               *)

PyBool(b) == [t |-> "bool", b |-> b]

Digits == {"0", "1", "2", "3", "4", "5", "6", "7", "8", "9"}

DigitValue(c) ==
    CASE c = "0" -> 0 [] c = "1" -> 1 [] c = "2" -> 2 [] c = "3" -> 3 [] c = "4" -> 4 [] c = "5" -> 5
      [] c = "6" -> 6 [] c = "7" -> 7 [] c = "8" -> 8 [] c = "9" -> 9

Parsed(v, p) == [ok |-> TRUE, v |-> v, msg |-> "", p |-> p]

\* JSONDecodeError(msg, doc, pos): p is pos counted from 1
NoParse(msg, p) == [ok |-> FALSE, v |-> PyNone, msg |-> msg, p |-> p]

\* the digits from position k on, given the value n of those read before
RECURSIVE ScanDigits(_, _, _)
ScanDigits(s, k, n) ==
    IF k <= Len(s) /\ Ch(s, k) \in Digits
    THEN ScanDigits(s, k + 1, 10 * n + DigitValue(Ch(s, k)))
    ELSE Parsed(PyInt(n), k)

\* the first position from k on that holds a quote or a control character
\* (Len(s) + 1 if none)
RECURSIVE StringEnd(_, _)
StringEnd(s, k) ==
    IF k <= Len(s) /\ Ch(s, k) \notin {"\"", "\n"} THEN StringEnd(s, k + 1) ELSE k

\* a string whose opening quote is at position k
ScanString(s, k) ==
    LET close == StringEnd(s, k + 1)
    IN  IF close > Len(s) THEN NoParse("Unterminated string starting at", k)
        ELSE IF Ch(s, close) = "\n" THEN NoParse("Invalid control character at", close)
        ELSE Parsed(PyStr(SubSeq(s, k + 1, close - 1)), close + 1)

\* a member's key at position k
ScanKey(s, k) ==
    IF k <= Len(s) /\ Ch(s, k) = "\"" THEN ScanString(s, k)
    ELSE NoParse("Expecting property name enclosed in double quotes", k)

RECURSIVE ScanValue(_, _), ScanElements(_, _, _), ScanMembers(_, _, _)

\* the JSON value that starts at position k
ScanValue(s, k) ==
    IF k > Len(s) THEN NoParse("Expecting value", k)
    ELSE IF Ch(s, k) = "\"" THEN ScanString(s, k)
    ELSE IF Ch(s, k) = "{" THEN
        LET m == SkipWs(s, k + 1)
        IN  IF m <= Len(s) /\ Ch(s, m) = "}" THEN Parsed(EmptyDict, m + 1)
            ELSE ScanMembers(s, m, EmptyDict)
    ELSE IF Ch(s, k) = "[" THEN
        LET m == SkipWs(s, k + 1)
        IN  IF m <= Len(s) /\ Ch(s, m) = "]" THEN Parsed(PyList(<<>>), m + 1)
            ELSE ScanElements(s, m, <<>>)
    ELSE IF StartsAt(s, k, "null") THEN Parsed(PyNone, k + 4)
    ELSE IF StartsAt(s, k, "true") THEN Parsed(PyBool(TRUE), k + 4)
    ELSE IF StartsAt(s, k, "false") THEN Parsed(PyBool(FALSE), k + 5)
    ELSE IF Ch(s, k) = "0" THEN Parsed(PyInt(0), k + 1)
    ELSE IF Ch(s, k) \in Digits THEN ScanDigits(s, k, 0)
    ELSE NoParse("Expecting value", k)

\* the elements of an array from position k on, given those read before
ScanElements(s, k, acc) ==
    LET e == ScanValue(s, k)
        m == SkipWs(s, e.p)
    IN  IF ~e.ok THEN e
        ELSE IF m <= Len(s) /\ Ch(s, m) = "]" THEN Parsed(PyList(Append(acc, e.v)), m + 1)
        ELSE IF m <= Len(s) /\ Ch(s, m) = ","
        THEN ScanElements(s, SkipWs(s, m + 1), Append(acc, e.v))
        ELSE NoParse("Expecting ',' delimiter", m)

\* the members of an object from position k on, given those read before; a key
\* given twice keeps its last value
ScanMembers(s, k, acc) ==
    LET key == ScanKey(s, k)
        colon == SkipWs(s, key.p)
        e == ScanValue(s, SkipWs(s, colon + 1))
        m == SkipWs(s, e.p)
    IN  IF ~key.ok THEN key
        ELSE IF colon > Len(s) \/ Ch(s, colon) # ":"
        THEN NoParse("Expecting ':' delimiter", colon)
        ELSE IF ~e.ok THEN e
        ELSE IF m <= Len(s) /\ Ch(s, m) = "}" THEN Parsed(Put(acc, key.v.s, e.v), m + 1)
        ELSE IF m <= Len(s) /\ Ch(s, m) = ","
        THEN ScanMembers(s, SkipWs(s, m + 1), Put(acc, key.v.s, e.v))
        ELSE NoParse("Expecting ',' delimiter", m)

\* json.loads(s): the value, or JSONDecodeError (ok = FALSE) when s does not
\* start with a value or holds more than the value and whitespace
JsonLoads(s) ==
    LET r == ScanValue(s, SkipWs(s, 1))
        end == SkipWs(s, r.p)
    IN  IF r.ok /\ end <= Len(s) THEN NoParse("Extra data", end) ELSE r

\* str(e) of a JSONDecodeError e raised on the document s
ErrorText(s, e) ==
    LET before == SubSeq(s, 1, e.p - 1)
        nl == RFind(before, "\n", Len(before))
    IN  e.msg \o ": line " \o ToString(CountCh(before, "\n") + 1)
              \o " column " \o ToString(e.p - nl)
              \o " (char " \o ToString(e.p - 1) \o ")"

----------------------------------------------------------------------------
(* categorize_keywords_with_gpt52: from the response text to the returned value *)

PreviewLen == 300

MissingInputs == "Blog text and/or keyword data missing. Please provide the necessary inputs."

ParseFailureHead == "Failed to parse JSON response from GPT-5.2"

CallFailureHead == "Error calling OpenAI API"

\* {"error": message}
ErrorRecord(message) == PyDict([k \in {"error"} |-> PyStr(message)])

\* lines 159-165 never slicing
WholeText(t) == t

\* lines 159-165 on the stripped text: from the first "{" to the last "}" when
\* both exist in that order, the whole text otherwise
JsonSpan(t) ==
    LET start_idx == Find(t, "{", 1)
        end_idx == RFind(t, "}", Len(t))
    IN  IF start_idx # 0 /\ end_idx # 0 /\ end_idx > start_idx
        THEN SubSeq(t, start_idx, end_idx)
        ELSE t

\* lines 176-179
Substituted(json_text) ==
    Replace(Replace(Replace(Replace(json_text, "'", "\""),
                            "None", "null"), "True", "true"), "False", "false")

\* lines 182-186: the missing closing braces appended
Balanced(json_text_fixed) ==
    LET open_braces == CountCh(json_text_fixed, "{")
        close_braces == CountCh(json_text_fixed, "}")
    IN  IF open_braces > close_braces
        THEN json_text_fixed \o Repeat("}", open_braces - close_braces)
        ELSE json_text_fixed

\* the loop of lines 199-206: json_lines after the lines still to read
RECURSIVE Accumulate(_, _, _, _)
Accumulate(lines, started, brace_count, json_lines) ==
    IF lines = <<>> THEN json_lines
    ELSE LET line == Head(lines)
             now_started == started \/ Find(line, "{", 1) # 0
             count == brace_count + CountCh(line, "{") - CountCh(line, "}")
         IN  IF ~now_started THEN Accumulate(Tail(lines), FALSE, brace_count, json_lines)
             ELSE IF count = 0 /\ Find(line, "}", 1) # 0 THEN Append(json_lines, line)
             ELSE Accumulate(Tail(lines), TRUE, count, Append(json_lines, line))

\* lines 194-208: json_text_final
LineScoped(json_text_fixed) ==
    JoinLines(Accumulate(SplitLines(json_text_fixed), FALSE, 0, <<>>))

\* lines 214-216 returning a record without a field
ParseFailureEmpty(e2, response_text) == EmptyDict

\* lines 214-216
ParseFailure(e2, response_text) ==
    ErrorRecord(ParseFailureHead \o ". Error: " \o e2 \o ". Response preview: "
                \o Take(response_text, PreviewLen) \o "...")

\* lines 212-215 reporting the exception of line 212, which the code leaves
\* unnamed
LastReported(e2, e3) == e3

\* lines 191 and 212-215: of the exception of the second attempt, bound to
\* e2, and that of the last attempt, bound to nothing, the message holds e2
Reported(e2, e3) == e2

\* lines 156-216 on the extracted text: the tier that returned and what it
\* returned
ParseResponse(text) ==
    LET response_text == Strip(text)
        json_text == JsonSpan(response_text)
        direct == JsonLoads(json_text)
        json_text_fixed == Balanced(Substituted(json_text))
        fixed == JsonLoads(json_text_fixed)
        json_text_final == LineScoped(json_text_fixed)
        final == JsonLoads(json_text_final)
    IN  IF direct.ok THEN [tier |-> "direct", value |-> direct.v]
        ELSE IF fixed.ok THEN [tier |-> "fixed", value |-> fixed.v]
        ELSE IF final.ok THEN [tier |-> "lines", value |-> final.v]
        ELSE [tier |-> "error",
              value |-> ParseFailure(Reported(ErrorText(json_text_fixed, fixed),
                                              ErrorText(json_text_final, final)),
                                     response_text)]

----------------------------------------------------------------------------
(* categorize_keywords_with_gpt52 as a whole: lines 19-221 *)

MaxParts == 2        \* most text parts of a Responses API output list

\* well-formed JSON objects
Objects ==
    {"{}", "{\"a\": 1}", "{\"a\": [1, 2]}", "{\"a\": {\"b\": 1}}", "{\"a\": \"{\"}",
     "{\"a\": 1, \"b\": null}"}

\* prose before and after an object, with and without braces
Leading == {"", "ok: ", "Here {x} is: ", "} ", "x\n"}
Trailing == {"", " end", " {", " } end", "\n} junk", "\n{\"b\": 2}"}

Wrapped == {P \o J \o Q : P \in Leading, J \in Objects, Q \in Trailing}

\* every object cut short
Truncations == UNION {{Take(J, n) : n \in 0..(Len(J) - 1)} : J \in Objects}

\* JSON values that are no object
NonObjects == {"5", "[1, 2]", "null", "true", "\"a\"", "[]", "[{\"a\": 1}, 2]"}

\* near misses of the substitutions
PythonLike ==
    {"{'a': None}", "{'a': True, 'b': False}", "'a'", "None", "{'a': '{'}",
     "{\"a\": \"it's\"}", "{'a': 1", "{\"a\": 1,}", "{\"a\": 1} and {\"b\": 2}"}

\* several lines
ManyLines ==
    {"{\n\"a\": 1\n}", "{\"a\":\n1}\n} {", "x }\n{\"a\": 1}\n}", "{\"a\": 1}\n}\n{",
     "{\"a\n\": 1}", "{\"a\": {\n\"b\": 1}\n}\n} }", "\"}{\"\nx", "x\n{y"}

\* a text longer than the preview
LongText == Repeat("no json ", 40)

NoBraces == {"", " ", "sorry", " x\n", "[1, 2", "[1 2]", "\"a", "a: 1", "012", LongText}

Texts == Wrapped \cup Truncations \cup NonObjects \cup PythonLike \cup ManyLines \cup NoBraces

\* the texts the rarer response shapes are tried with
FewTexts == {"{\"a\": 1}", "sorry", "5", ""}

FewValues == {PyStr(t) : t \in FewTexts} \cup {PyNone}

Responses ==
    {[shape |-> "choices", texts |-> <<v>>] : v \in {PyStr(t) : t \in Texts} \cup {PyNone}}
    \cup {[shape |-> sh, texts |-> <<v>>] :
            sh \in {"output_text", "text", "content"}, v \in FewValues}
    \cup {[shape |-> sh, texts |-> <<PyStr(t)>>] :
            sh \in {"output_str", "repr"}, t \in FewTexts \ {""}}
    \cup {[shape |-> "output_list", texts |-> l] : l \in SeqsUpTo(FewValues, MaxParts)}
    \cup {[shape |-> "output_other", texts |-> <<>>]}

\* the chat method is looked at only when `responses` is absent or its call
\* raised AttributeError
Clients ==
    {c \in [responses : {"returns", "absent", "AttributeError", "raises"},
            chat : {"returns", "raises"},
            response : Responses] :
        c.responses \in {"returns", "raises"} => c.chat = "returns"}

InputTexts == {"", " \n", "x"}

InitRepair ==
    /\ \/ /\ blog_content \in InputTexts
          /\ csv_content \in InputTexts
          /\ client = [responses |-> "returns", chat |-> "returns",
                       response |-> [shape |-> "choices", texts |-> <<PyStr("{}")>>]]
       \/ /\ blog_content = "x"
          /\ csv_content = "x"
          /\ client \in Clients
    /\ llm_calls = <<>>
    /\ response = NoResponse
    /\ result = NotReturned
    /\ tier = "none"
    /\ pc = "cat_start"
    /\ geoIdle
    /\ matchIdle
    /\ ideaIdle
    /\ appIdle
    /\ pairIdle
    /\ topIdle

\* `not text` alone
EmptyOnly(text) == text = ""

\* `not text or not text.strip()` of lines 38-39
Blank(text) == Strip(text) = ""

\* an exception raised inside the try of line 53 leaving the function
Escapes(message) ==
    /\ pc' = "cat_raised"
    /\ tier' = "exception"
    /\ UNCHANGED result

\* lines 218-221: an exception raised inside the try of line 53
Caught(message) ==
    /\ result' = ErrorRecord(CallFailureHead \o ": " \o message)
    /\ tier' = "exception"
    /\ pc' = "cat_done"

\* str(e) of what a failing client call raises
ClientError == "boom"

\* lines 38-42
RejectMissingInputs ==
    /\ pc = "cat_start"
    /\ Blank(blog_content) \/ Blank(csv_content)
    /\ result' = ErrorRecord(MissingInputs)
    /\ tier' = "validation"
    /\ pc' = "cat_done"
    /\ UNCHANGED <<blog_content, csv_content, client, llm_calls, response, catRest>>

\* the inputs passed line 38 and the client has the Responses API (line 56)
AtResponses ==
    /\ pc = "cat_start"
    /\ ~Blank(blog_content) /\ ~Blank(csv_content)
    /\ client.responses # "absent"

\* the Chat Completions call comes next: the client has no Responses API
\* (line 87) or its call raised AttributeError (line 70)
AtChat ==
    \/ pc = "cat_fallback"
    \/ /\ pc = "cat_start"
       /\ ~Blank(blog_content) /\ ~Blank(csv_content)
       /\ client.responses = "absent"

\* lines 58-69
ResponsesReturns ==
    /\ AtResponses
    /\ client.responses = "returns"
    /\ llm_calls' = Append(llm_calls, "responses.create")
    /\ response' = client.response
    /\ pc' = "cat_extract"
    /\ UNCHANGED <<blog_content, csv_content, client, result, tier, catRest>>

\* lines 58-70: the call raises AttributeError
ResponsesAttributeError ==
    /\ AtResponses
    /\ client.responses = "AttributeError"
    /\ llm_calls' = Append(llm_calls, "responses.create")
    /\ pc' = "cat_fallback"
    /\ UNCHANGED <<blog_content, csv_content, client, response, result, tier, catRest>>

\* lines 58-69: the call raises another exception
ResponsesRaises ==
    /\ AtResponses
    /\ client.responses = "raises"
    /\ llm_calls' = Append(llm_calls, "responses.create")
    /\ Caught(ClientError)
    /\ UNCHANGED <<blog_content, csv_content, client, response, catRest>>

\* lines 72-85 and 89-103
ChatReturns ==
    /\ AtChat
    /\ client.chat = "returns"
    /\ llm_calls' = Append(llm_calls, "chat.completions.create")
    /\ response' = client.response
    /\ pc' = "cat_extract"
    /\ UNCHANGED <<blog_content, csv_content, client, result, tier, catRest>>

\* lines 72-85 and 89-103: the call raises
ChatRaises ==
    /\ AtChat
    /\ client.chat = "raises"
    /\ llm_calls' = Append(llm_calls, "chat.completions.create")
    /\ Caught(ClientError)
    /\ UNCHANGED <<blog_content, csv_content, client, response, catRest>>

\* str(e) of the exception lines 137 and 156 raise on a text that is no str
NoneHasNoStrip == "'NoneType' object has no attribute 'strip'"

JoinTypeError(k) ==
    "sequence item " \o ToString(k - 1) \o ": expected str instance, NoneType found"

\* the text parts of an output list joined by "\n"
RECURSIVE JoinParts(_)
JoinParts(parts) ==
    IF parts = <<>> THEN ""
    ELSE IF Len(parts) = 1 THEN parts[1].s
    ELSE parts[1].s \o "\n" \o JoinParts(Tail(parts))

\* lines 107-156: the response text up to its strip(), or the exception raised
\* on the way
ExtractText(r) ==
    LET notStr == {k \in DOMAIN r.texts : r.texts[k].t # "str"}
    IN  IF r.shape = "output_other" THEN [raises |-> FALSE, text |-> ""]
        ELSE IF r.shape = "output_list" THEN
            IF notStr # {}
            THEN [raises |-> TRUE,
                  text |-> JoinTypeError(CHOOSE k \in notStr : \A h \in notStr : k <= h)]
            ELSE [raises |-> FALSE, text |-> JoinParts(r.texts)]
        ELSE IF notStr # {} THEN [raises |-> TRUE, text |-> NoneHasNoStrip]
        ELSE [raises |-> FALSE, text |-> r.texts[1].s]

\* lines 107-156 raising
ExtractRaises ==
    /\ pc = "cat_extract"
    /\ ExtractText(response).raises
    /\ Caught(ExtractText(response).text)
    /\ UNCHANGED <<blog_content, csv_content, client, llm_calls, response, catRest>>

\* lines 107-216
Parse ==
    /\ pc = "cat_extract"
    /\ ~ExtractText(response).raises
    /\ LET parsed == ParseResponse(ExtractText(response).text)
       IN  /\ result' = parsed.value
           /\ tier' = parsed.tier
    /\ pc' = "cat_done"
    /\ UNCHANGED <<blog_content, csv_content, client, llm_calls, response, catRest>>

NextRepair ==
    \/ RejectMissingInputs
    \/ ResponsesReturns
    \/ ResponsesAttributeError
    \/ ResponsesRaises
    \/ ChatReturns
    \/ ChatRaises
    \/ ExtractRaises
    \/ Parse

SpecRepair == InitRepair /\ [][NextRepair]_vars

----------------------------------------------------------------------------
(* Properties of categorize_keywords_with_gpt52 *)

\* the function returned from its parsing steps (lines 156-216)
Parsing == pc = "cat_done" /\ tier \in {"direct", "fixed", "lines", "error"}

\* the response text as extracted, before its strip()
RawText == ExtractText(response).text

IsRecord(v) == v.t = "dict"

IsErrorRecord(v) == v.t = "dict" /\ DOMAIN v.d = {"error"} /\ v.d["error"].t = "str"

EndsWith(s, w) == Len(w) <= Len(s) /\ SubSeq(s, Len(s) - Len(w) + 1, Len(s)) = w

Contains(s, w) == Find(s, w, 1) # 0

\* C11: categorize_keywords_with_gpt52 never raises: whatever the client does
\* (returns a response of any shape and text, a missing text included, or
\* raises from either API), no exception leaves the function: it is at one of
\* its steps or has returned, and what it returned is a value.
C11_NeverRaises ==
    /\ pc \in {"cat_start", "cat_fallback", "cat_extract", "cat_done"}
    /\ pc = "cat_done" =>
           result.t \in {"dict", "list", "str", "int", "bool", "NoneType"}

\* a response whose text is missing made the extraction raise, and the
\* function returned the call-failure record
C11_Witness ==
    /\ pc = "cat_done"
    /\ tier = "exception"
    /\ response.shape = "choices"
    /\ response.texts = <<PyNone>>
    /\ result = ErrorRecord(CallFailureHead \o ": " \o NoneHasNoStrip)

C13_RoundTripAnyProse ==
    \A P \in Leading, J \in Objects, Q \in Trailing :
        (Parsing /\ RawText = P \o J \o Q) => result = JsonLoads(J).v

\* C13 (amended): for every well-formed object text J, prose P that holds no
\* "{" and prose Q that holds no "}", the function applied to P+J+Q returns
\* what parsing J alone gives (a "}" in P and a "{" in Q do no harm).
C13_RoundTripProseWithoutOuterBraces ==
    \A P \in Leading, J \in Objects, Q \in Trailing :
        (Parsing /\ RawText = P \o J \o Q /\ ~Contains(P, "{") /\ ~Contains(Q, "}"))
            => result = JsonLoads(J).v

\* an object between prose that holds a "}" before it and a "{" after it was
\* returned as parsed
C13_Witness ==
    /\ Parsing
    /\ RawText = "} {\"a\": [1, 2]} {"
    /\ result = JsonLoads("{\"a\": [1, 2]}").v
    /\ IsRecord(result)

\* C14: the truncated text {"a": [1, 2 is recovered to a parsed record and
\* not answered with the error record.
C14_TruncatedListRecovered ==
    (Parsing /\ RawText = "{\"a\": [1, 2") => (IsRecord(result) /\ tier # "error")

\* no step of lines 168-211 parses the text
NoTierParses(text) ==
    LET json_text == JsonSpan(Strip(text))
        json_text_fixed == Balanced(Substituted(json_text))
    IN  /\ ~JsonLoads(json_text).ok
        /\ ~JsonLoads(json_text_fixed).ok
        /\ ~JsonLoads(LineScoped(json_text_fixed)).ok

\* C15: for a response text without "{" that no tier parses, the function
\* returns a record whose sole field is "error"; its message starts with the
\* parse-failure head and ends with a prefix of the text, "..." put after it:
\* the first 300 characters of the text as strip() leaves it, that is, of the
\* text from its first character that is no whitespace.
C15_TotalFailureIsErrorRecord ==
    (Parsing /\ ~Contains(RawText, "{") /\ NoTierParses(RawText))
        => /\ IsErrorRecord(result)
           /\ StartsAt(result.d["error"].s, 1, ParseFailureHead)
           /\ EndsWith(result.d["error"].s,
                       ". Response preview: " \o Take(Strip(RawText), PreviewLen) \o "...")
           /\ StartsAt(From(RawText, SkipWs(RawText, 1)), 1,
                       Take(Strip(RawText), PreviewLen))

\* a text longer than the preview, without "{", was answered with the error
\* record, which holds its first 300 characters and not the whole text
C15_Witness ==
    /\ Parsing
    /\ RawText = LongText
    /\ Len(LongText) > PreviewLen
    /\ IsErrorRecord(result)
    /\ Contains(result.d["error"].s, Take(LongText, PreviewLen))
    /\ ~Contains(result.d["error"].s, LongText)

\* a text of nothing but whitespace, the empty text included
WhitespaceOnly(text) == \A k \in 1..Len(text) : Ch(text, k) \in Whitespace

\* C27: when the blog content or the keyword CSV is empty or holds only
\* whitespace, the function makes no call to the language model, by either
\* API, and what it returns is the error record with the fixed
\* missing-inputs message.
C27_MissingInputsRejectedBeforeCall ==
    (WhitespaceOnly(blog_content) \/ WhitespaceOnly(csv_content)) =>
        /\ llm_calls = <<>>
        /\ pc \in {"cat_start", "cat_done"}
        /\ pc = "cat_done" =>
               /\ result = ErrorRecord(MissingInputs)
               /\ Contains(result.d["error"].s, "Blog text and/or keyword data missing")

\* a call with a blog text and a CSV of whitespace returned the record, the
\* client, which would have answered, not having been called
C27_Witness ==
    /\ pc = "cat_done"
    /\ blog_content = "x"
    /\ csv_content = " \n"
    /\ client.responses = "returns"
    /\ llm_calls = <<>>
    /\ result = ErrorRecord(MissingInputs)

\* the texts of the parse attempts for the response at hand: what is parsed
\* first, what is parsed second, what is parsed last
Sliced == JsonSpan(Strip(RawText))

FixedText == Balanced(Substituted(Sliced))

FinalText == LineScoped(FixedText)

\* the first two attempts failed
ReachedLines == Parsing /\ tier \in {"lines", "error"}

\* C21: when the sliced text does not parse and the text the substitutions
\* make of it is a valid object, the function returns the parse of the
\* substituted text, whatever its braces (an unmatched "{" inside a string
\* value included), the missing braces being appended only after that parse
\* failed.
C21_SubstitutedObjectReturned ==
    (/\ Parsing
     /\ ~JsonLoads(Sliced).ok
     /\ JsonLoads(Substituted(Sliced)).ok
     /\ IsRecord(JsonLoads(Substituted(Sliced)).v))
        => result = JsonLoads(Substituted(Sliced)).v

\* "{" minus "}" over the whole of s
Balance(s) == CountCh(s, "{") - CountCh(s, "}")

\* reading s from its start, there have at some point been more "{" than "}"
BeenPositive(s) == \E n \in 1..Len(s) : Balance(Take(s, n)) > 0

\* s from the start of its first line that holds a "{", nothing if none does
FromFirstBrace(s) ==
    LET at == Find(s, "{", 1)
    IN  IF at = 0 THEN "" ELSE From(s, RFind(s, "\n", at) + 1)

\* C22: when the first two attempts fail, what is parsed last is a run of
\* lines that starts at the first line holding a "{"; if it stops before the
\* last line, it stops where the balance of "{" minus "}" is back at zero
\* after having been positive, never at a line that brings the balance to zero
\* without it having been positive; and what that span parses to is returned.
C22_StopsOnlyAfterPositive ==
    ReachedLines =>
        /\ StartsAt(FromFirstBrace(FixedText), 1, FinalText)
        /\ tier = "lines" => result = JsonLoads(FinalText).v
        /\ FinalText # FromFirstBrace(FixedText) =>
               /\ Balance(FinalText) = 0
               /\ BeenPositive(FinalText)

\* C23: when no attempt parses, the message of the error record holds the
\* failure description of the last attempt, the one on the line-scoped text,
\* followed by the first 300 characters of the response text.
C23_ReportsFinalAttempt ==
    (Parsing /\ tier = "error") =>
        /\ IsErrorRecord(result)
        /\ result.d["error"].s =
               ParseFailureHead \o ". Error: "
                   \o ErrorText(FinalText, JsonLoads(FinalText))
                   \o ". Response preview: " \o Take(Strip(RawText), PreviewLen) \o "..."

\* C23 (amended): when no attempt parses, the message of the error record
\* holds the failure description of the second attempt, the one on the
\* substituted and brace-balanced text, whatever the last attempt failed with,
\* followed by the first 300 characters of the stripped response text.
C23_ReportsSecondAttempt ==
    (Parsing /\ tier = "error") =>
        /\ IsErrorRecord(result)
        /\ result.d["error"].s =
               ParseFailureHead \o ". Error: "
                   \o ErrorText(FixedText, JsonLoads(FixedText))
                   \o ". Response preview: " \o Take(Strip(RawText), PreviewLen) \o "..."

\* a text whose second and last attempts fail differently was answered with
\* the description of the second failure
C23_Witness ==
    /\ Parsing
    /\ tier = "error"
    /\ RawText = "x\n{y"
    /\ FixedText = "x\n{y}"
    /\ FinalText = "{y}"
    /\ ErrorText(FinalText, JsonLoads(FinalText))
           = "Expecting property name enclosed in double quotes: line 1 column 2 (char 1)"
    /\ Contains(result.d["error"].s, "Error: Expecting value: line 1 column 1 (char 0).")

----------------------------------------------------------------------------
(* generate_keyword_ideas: the inputs it checks, lines 58-88 and 108-132 *)

GeoTargetLimit == 10

MinLength == 20

GeoPrefix == "geoTargetConstants/"

\* the test of line 65
Usable(gt) == Truthy(gt) /\ gt.t = "str" /\ Strip(gt.s) # ""

\* line 70, dict.fromkeys: the first occurrence of each entry, in order
Distinct(l) ==
    LET kept[k \in 0..Len(l)] ==
            IF k = 0 THEN <<>>
            ELSE IF \E j \in 1..(k - 1) : l[j] = l[k] THEN kept[k - 1]
            ELSE Append(kept[k - 1], l[k])
    IN  kept[Len(l)]

\* the test of line 76 on a stripped entry
WellFormed(gt) == StartsAt(gt, 1, GeoPrefix) /\ Len(gt) > MinLength

\* lines 73-79 on the entries line 70 left
Validated(l) == SelectSeq([k \in DOMAIN l |-> Strip(l[k].s)], WellFormed)

\* lines 86-88 not limiting the list
Unlimited(l) == l

\* lines 86-88
Limited(l) == IF Len(l) > GeoTargetLimit THEN SubSeq(l, 1, GeoTargetLimit) ELSE l

SchemeChars ==
    {Ch("abcdefghijklmnopqrstuvwxyzABCDEFGHIJKLMNOPQRSTUVWXYZ0123456789+-.", k) :
        k \in 1..65}

Letters == {Ch("abcdefghijklmnopqrstuvwxyzABCDEFGHIJKLMNOPQRSTUVWXYZ", k) : k \in 1..52}

\* the first position from k on that holds one of the characters (Len(s) + 1
\* if none)
FirstOf(s, chars, k) ==
    LET at == {j \in k..Len(s) : Ch(s, j) \in chars}
    IN  IF at = {} THEN Len(s) + 1 ELSE CHOOSE j \in at : \A h \in at : j <= h

\* urlparse(url): its netloc and path
UrlParse(url) ==
    LET u == From(url, SkipWs(url, 1))
        colon == Find(u, ":", 1)
        hasScheme == /\ colon > 1
                     /\ Ch(u, 1) \in Letters
                     /\ \A k \in 1..(colon - 1) : Ch(u, k) \in SchemeChars
        rest == IF hasScheme THEN From(u, colon + 1) ELSE u
        hasNetloc == StartsAt(rest, 1, "//")
        netlocEnd == FirstOf(rest, {"/", "?", "#"}, 3)
        tail == IF hasNetloc THEN From(rest, netlocEnd) ELSE rest
    IN  [netloc |-> IF hasNetloc THEN SubSeq(rest, 3, netlocEnd - 1) ELSE "",
         path |-> SubSeq(tail, 1, FirstOf(tail, {"?", "#"}, 1) - 1)]

\* s.strip("/")
StripSlashes(s) ==
    LET inner == {j \in 1..Len(s) : Ch(s, j) # "/"}
    IN  IF inner = {} THEN ""
        ELSE SubSeq(s, CHOOSE j \in inner : \A h \in inner : j <= h,
                       CHOOSE j \in inner : \A h \in inner : j >= h)

\* line 111 taking the URL as it is
WholeUrl(url) == url

\* line 111
Domain(url) ==
    LET parsed == UrlParse(url)
    IN  IF parsed.netloc # "" THEN parsed.netloc ELSE StripSlashes(parsed.path)

\* lines 118-122: the domain given to a site seed
SiteOf(domain) ==
    LET bare == IF StartsAt(domain, 1, "www.") THEN From(domain, 5) ELSE domain
    IN  Replace(Replace(bare, "https://", ""), "http://", "")

\* lines 125-132: the URL given to the URL seed
WithProtocol(url) ==
    IF StartsAt(url, 1, "http://") \/ StartsAt(url, 1, "https://")
    THEN url
    ELSE "https://" \o url

----------------------------------------------------------------------------
(* generate_keyword_ideas: what it raises, lines 184-262 *)

ApiErrorHead == "Google Ads API error"

\* the heading of the guidance text of lines 213-232
InvalidArgumentGuidance == "INVALID_ARGUMENT Error - Possible causes:"

\* the heading of the guidance text of lines 234-256
PermissionDeniedGuidance == "PERMISSION_DENIED Error - Possible causes:"

ValueError(message) == [type |-> "ValueError", str |-> message]

\* c.lower() for a character c
LowerCh(c) ==
    LET upper == "ABCDEFGHIJKLMNOPQRSTUVWXYZ"
        at == Find(upper, c, 1)
    IN  IF at = 0 THEN c ELSE Ch("abcdefghijklmnopqrstuvwxyz", at)

\* s.lower()
RECURSIVE Lower(_)
Lower(s) == IF s = "" THEN "" ELSE LowerCh(Head(s)) \o Lower(Tail(s))

\* lines 185-209: the message for a GoogleAdsException, before the guidance
Classified(ex) ==
    IF ex.has_error
    THEN ApiErrorHead
         \o (IF ex.code # "" THEN ": " \o ex.code ELSE "")
         \o (IF ex.location # "" THEN " at " \o ex.location ELSE "")
         \o (IF ex.details # "" THEN " - " \o ex.details ELSE "")
    ELSE ApiErrorHead \o ": " \o ex.str

\* the test of line 212
InvalidArgument(ex) ==
    \/ ex.has_error /\ ex.code = "INVALID_ARGUMENT"
    \/ ex.has_error /\ ex.details # "" /\ Contains(Lower(ex.details), "invalid value")

\* the test of line 233
PermissionDenied(ex) == ex.has_error /\ ex.code = "PERMISSION_DENIED"

\* lines 212-256: the guidance put after the message
Guidance(ex) ==
    IF InvalidArgument(ex) THEN "\n\n" \o InvalidArgumentGuidance
    ELSE IF PermissionDenied(ex) THEN "\n\n" \o PermissionDeniedGuidance
    ELSE ""

\* line 258: raise Exception(error_message) from ex
FromAdsException(ex) ==
    [type |-> "Exception", message |-> Classified(ex) \o Guidance(ex), cause |-> ex]

\* lines 259-262: raise Exception(error_message) from ex
FromException(ex) ==
    [type |-> "Exception", message |-> ApiErrorHead \o ": " \o ex.str, cause |-> ex]

----------------------------------------------------------------------------
(* generate_keyword_ideas as a whole: lines 32-262 *)

MaxPool == 12        \* most well-formed distinct geo targets of an input list
MaxOdd == 2          \* most other entries put before them
MaxRows == 2         \* most rows of a response

DefaultMaxResults == 2000

\* well-formed geo targets, all distinct
PoolId(k) == GeoPrefix \o ToString(2000 + k)

Pool(n) == [k \in 1..n |-> PyStr(PoolId(k))]

\* entries that are unusable, malformed, padded or repeated
OddEntries ==
    {PyNone, PyInt(5), PyStr(""), PyStr(" "), PyStr("countries/2124"),
     PyStr("geoTargetConstants/2"), PyStr(PoolId(1)), PyStr(" " \o PoolId(1) \o " ")}

GeoLists == {odd \o Pool(n) : odd \in SeqsUpTo(OddEntries, MaxOdd), n \in 0..MaxPool}

FewGeoLists == {<<>>, <<PyNone, PyStr(" ")>>, <<PyStr("countries/2124")>>, Pool(1)}

CustomerIds == {PyNone, PyStr(""), PyStr("123-456-7890")}

Urls ==
    {"", "/", "https://", "https://www.example.com", "www.example.com",
     "example.com/blog/", "not a url", "http://www.example.com/a?q=1"}

Rows ==
    SeqsUpTo({[text |-> "a", searches |-> PyNone], [text |-> "b", searches |-> PyInt(0)],
              [text |-> "c", searches |-> PyInt(10)]}, MaxRows)

AdsExceptions ==
    {[type |-> "GoogleAdsException", has_error |-> TRUE, code |-> c, location |-> l,
      details |-> d, str |-> "request failed"] :
        c \in {"", "INVALID_ARGUMENT", "PERMISSION_DENIED", "UNAUTHENTICATED"},
        l \in {"", "geo_target_constants"},
        d \in {"", "Invalid value for geo target", "The caller does not have permission"}}
    \cup {[type |-> "GoogleAdsException", has_error |-> FALSE, code |-> "",
           location |-> "", details |-> "", str |-> "request failed"]}

OtherExceptions ==
    {[type |-> "RpcError", str |-> "Deadline Exceeded"],
     [type |-> "RuntimeError", str |-> "SERVICE_DISABLED"]}

\* what the remote call does: it returns a response of some rows, or it raises,
\* at once or while the response is read, after some rows
Remotes ==
    {[kind |-> "returns", rows |-> r, ex |-> NoFailure] : r \in Rows}
    \cup {[kind |-> "raises", rows |-> r, ex |-> e] :
            r \in {<<>>, <<[text |-> "c", searches |-> PyInt(10)]>>},
            e \in AdsExceptions \cup OtherExceptions}

GoodRemote ==
    [kind |-> "returns", rows |-> <<[text |-> "c", searches |-> PyInt(10)]>>,
     ex |-> NoFailure]

\* the inputs of one call: the geo targets varied, the rest varied, the
\* service varied
IdeaCalls ==
    {[customer_id |-> PyStr("123-456-7890"), website_url |-> "https://www.example.com",
      geo_target_constants |-> g, max_results |-> DefaultMaxResults,
      ads |-> [setup |-> "ok", seed |-> sd, remote |-> GoodRemote]] :
        g \in GeoLists, sd \in {"url_seed", "site_seed"}}
    \cup {[customer_id |-> c, website_url |-> u, geo_target_constants |-> g,
           max_results |-> DefaultMaxResults,
           ads |-> [setup |-> "ok", seed |-> "url_seed", remote |-> GoodRemote]] :
            c \in CustomerIds, u \in Urls, g \in FewGeoLists}
    \cup {[customer_id |-> PyStr("123-456-7890"), website_url |-> u,
           geo_target_constants |-> Pool(1), max_results |-> m,
           ads |-> [setup |-> su, seed |-> sd, remote |-> r]] :
            u \in {"www.example.com", "https://"}, m \in {1, DefaultMaxResults},
            su \in {"ok", "raises"},
            sd \in {"url_seed", "site_seed", "none", "raises"}, r \in Remotes}

InitIdeas ==
    /\ \E call \in IdeaCalls :
          /\ customer_id = call.customer_id
          /\ website_url = call.website_url
          /\ geo_target_constants = call.geo_target_constants
          /\ max_results = call.max_results
          /\ ads = call.ads
    /\ validated_geo_targets = <<>>
    /\ request = NoRequest
    /\ issued = <<>>
    /\ results = NotReturned
    /\ failure = NoFailure
    /\ pc = "kw_start"
    /\ geoIdle
    /\ matchIdle
    /\ catIdle
    /\ appIdle
    /\ pairIdle
    /\ topIdle

\* an exception other than GoogleAdsException raised inside the try of line 56
RaiseWrapped(ex) ==
    /\ failure' = FromException(ex)
    /\ pc' = "kw_raised"

\* the customer id passed line 58
CustomerGiven == Truthy(customer_id)

\* the entries line 65 keeps
UsableTargets == SelectSeq(geo_target_constants, Usable)

\* the entries lines 70-79 keep
ValidatedTargets == Validated(Distinct(UsableTargets))

\* lines 58-59
RejectCustomerId ==
    /\ pc = "kw_start"
    /\ ~CustomerGiven
    /\ RaiseWrapped(ValueError("Customer ID is required"))
    /\ UNCHANGED <<customer_id, website_url, geo_target_constants, max_results, ads,
                   validated_geo_targets, request, issued, results, ideaRest>>

\* lines 61-62
RejectNoGeoTargets ==
    /\ pc = "kw_start"
    /\ CustomerGiven
    /\ geo_target_constants = <<>>
    /\ RaiseWrapped(ValueError("At least one geo target constant is required"))
    /\ UNCHANGED <<customer_id, website_url, geo_target_constants, max_results, ads,
                   validated_geo_targets, request, issued, results, ideaRest>>

\* lines 65-67
RejectUnusableGeoTargets ==
    /\ pc = "kw_start"
    /\ CustomerGiven
    /\ geo_target_constants # <<>>
    /\ UsableTargets = <<>>
    /\ RaiseWrapped(ValueError("No valid geo target constants found"))
    /\ UNCHANGED <<customer_id, website_url, geo_target_constants, max_results, ads,
                   validated_geo_targets, request, issued, results, ideaRest>>

\* lines 70-82
RejectMalformedGeoTargets ==
    /\ pc = "kw_start"
    /\ CustomerGiven
    /\ UsableTargets # <<>>
    /\ ValidatedTargets = <<>>
    /\ RaiseWrapped(ValueError("No valid geo target constants found after validation"))
    /\ UNCHANGED <<customer_id, website_url, geo_target_constants, max_results, ads,
                   validated_geo_targets, request, issued, results, ideaRest>>

\* lines 58-88, every check passed
AcceptInputs ==
    /\ pc = "kw_start"
    /\ CustomerGiven
    /\ ValidatedTargets # <<>>
    /\ validated_geo_targets' = Limited(ValidatedTargets)
    /\ pc' = "kw_build"
    /\ UNCHANGED <<customer_id, website_url, geo_target_constants, max_results, ads,
                   request, issued, results, failure, ideaRest>>

\* lines 90-106: get_service or get_type raises
SetupRaises ==
    /\ pc = "kw_build"
    /\ ads.setup = "raises"
    /\ RaiseWrapped([type |-> "RuntimeError", str |-> "service unavailable"])
    /\ UNCHANGED <<customer_id, website_url, geo_target_constants, max_results, ads,
                   validated_geo_targets, request, issued, results, ideaRest>>

\* the request as lines 93-106 fill it
Built ==
    [customer_id |-> Replace(customer_id.s, "-", ""),
     geo_target_constants |-> validated_geo_targets,
     url_seed |-> PyNone, site_seed |-> PyNone]

\* lines 110-115
RejectUrl ==
    /\ pc = "kw_build"
    /\ ads.setup = "ok"
    /\ Domain(website_url) = ""
    /\ request' = Built
    /\ RaiseWrapped(ValueError("Invalid website URL: " \o website_url))
    /\ UNCHANGED <<customer_id, website_url, geo_target_constants, max_results, ads,
                   validated_geo_targets, issued, results, ideaRest>>

\* the seed comes next (line 134)
AtSeed == pc = "kw_build" /\ ads.setup = "ok" /\ Domain(website_url) # ""

\* lines 134-136
SetUrlSeed ==
    /\ AtSeed
    /\ ads.seed = "url_seed"
    /\ request' = [Built EXCEPT !.url_seed = PyStr(WithProtocol(website_url))]
    /\ pc' = "kw_call"
    /\ UNCHANGED <<customer_id, website_url, geo_target_constants, max_results, ads,
                   validated_geo_targets, issued, results, failure, ideaRest>>

\* lines 137-140: the request has no url_seed
SetSiteSeed ==
    /\ AtSeed
    /\ ads.seed = "site_seed"
    /\ request' = [Built EXCEPT !.site_seed = PyStr(SiteOf(Domain(website_url)))]
    /\ pc' = "kw_call"
    /\ UNCHANGED <<customer_id, website_url, geo_target_constants, max_results, ads,
                   validated_geo_targets, issued, results, failure, ideaRest>>

\* lines 141-142: the request has neither seed
NoSeedAvailable ==
    /\ AtSeed
    /\ ads.seed = "none"
    /\ request' = Built
    /\ RaiseWrapped(ValueError(
           "Could not set website seed. Neither url_seed nor site_seed available. URL: "
           \o WithProtocol(website_url) \o ", Domain: " \o SiteOf(Domain(website_url))
           \o ", Error: site_seed"))
    /\ UNCHANGED <<customer_id, website_url, geo_target_constants, max_results, ads,
                   validated_geo_targets, issued, results, ideaRest>>

\* lines 143-144: setting the URL seed raises another exception
SeedRaises ==
    /\ AtSeed
    /\ ads.seed = "raises"
    /\ request' = Built
    /\ RaiseWrapped(ValueError(
           "Error setting website seed. URL: " \o WithProtocol(website_url)
           \o ", Error: bad value"))
    /\ UNCHANGED <<customer_id, website_url, geo_target_constants, max_results, ads,
                   validated_geo_targets, issued, results, ideaRest>>

\* lines 159-166: the idea made of a row
KeywordData(row) ==
    [keyword |-> row.text,
     avg_monthly_searches |-> IF Truthy(row.searches) THEN row.searches.n ELSE 0]

\* lines 150-182: the ideas of the first max_results rows
Extracted(rows) ==
    [k \in 1..(IF Len(rows) < max_results THEN Len(rows) ELSE max_results) |->
        KeywordData(rows[k])]

\* lines 147-182
RemoteReturns ==
    /\ pc = "kw_call"
    /\ ads.remote.kind = "returns"
    /\ issued' = Append(issued, request)
    /\ results' = PyList(Extracted(ads.remote.rows))
    /\ pc' = "kw_done"
    /\ UNCHANGED <<customer_id, website_url, geo_target_constants, max_results, ads,
                   validated_geo_targets, request, failure, ideaRest>>

\* lines 147-182 and 184-258: the call, or reading its response, raises
\* GoogleAdsException
RemoteFailure ==
    /\ pc = "kw_call"
    /\ ads.remote.kind = "raises"
    /\ ads.remote.ex.type = "GoogleAdsException"
    /\ issued' = Append(issued, request)
    /\ failure' = FromAdsException(ads.remote.ex)
    /\ pc' = "kw_raised"
    /\ UNCHANGED <<customer_id, website_url, geo_target_constants, max_results, ads,
                   validated_geo_targets, request, results, ideaRest>>

\* lines 147-182 and 259-262: the call, or reading its response, raises another
\* exception
RemoteError ==
    /\ pc = "kw_call"
    /\ ads.remote.kind = "raises"
    /\ ads.remote.ex.type # "GoogleAdsException"
    /\ issued' = Append(issued, request)
    /\ RaiseWrapped(ads.remote.ex)
    /\ UNCHANGED <<customer_id, website_url, geo_target_constants, max_results, ads,
                   validated_geo_targets, request, results, ideaRest>>

NextIdeas ==
    \/ RejectCustomerId
    \/ RejectNoGeoTargets
    \/ RejectUnusableGeoTargets
    \/ RejectMalformedGeoTargets
    \/ AcceptInputs
    \/ SetupRaises
    \/ RejectUrl
    \/ SetUrlSeed
    \/ SetSiteSeed
    \/ NoSeedAvailable
    \/ SeedRaises
    \/ RemoteReturns
    \/ RemoteFailure
    \/ RemoteError

SpecIdeas == InitIdeas /\ [][NextIdeas]_vars

----------------------------------------------------------------------------
(* resolve_countries end to end *)

\* the cache that holds the entry of Canada and nothing else
OnlyCanada == Put(EmptyDict, "Canada", PyStr("geoTargetConstants/2124"))

\* the batch of ["Fakeland", "Canada"] on that cache has returned, the service
\* having answered the query for Fakeland with no candidates
FakelandCanadaDone ==
    /\ pc = "done"
    /\ names = <<"Fakeland", "Canada">>
    /\ loaded = OnlyCanada
    /\ outcome[1].kind = "empty"

\* C19: with the input ["Fakeland", "Canada"], a cache that holds only
\* Canada -> geoTargetConstants/2124 and a service without candidates for
\* Fakeland, resolve_countries returns exactly [geoTargetConstants/2124],
\* queries the service once, for Fakeland, and the cache it holds and, the
\* write succeeding, the cache it persisted have exactly the entry of Canada.
C19_FakelandCanada ==
    FakelandCanadaDone =>
        /\ geo_targets = <<PyStr("geoTargetConstants/2124")>>
        /\ calls = <<"Fakeland">>
        /\ cache = OnlyCanada
        /\ saved = "ok" => file = Written(OnlyCanada)

\* that batch has returned and its cache was written
C19_Witness ==
    /\ FakelandCanadaDone
    /\ saved = "ok"
    /\ file = Written(OnlyCanada)
    /\ geo_targets = <<PyStr("geoTargetConstants/2124")>>
    /\ outcome[2].kind = "hit"

----------------------------------------------------------------------------
(* Properties of generate_keyword_ideas *)

\* generate_keyword_ideas has returned or raised
IdeasEnded == pc \in {"kw_done", "kw_raised"}

\* the entry as line 75 strips it ("" for an entry that is no string)
Stripped(gt) == IF gt.t = "str" THEN Strip(gt.s) ELSE ""

\* a can be had from b by leaving entries out
RECURSIVE IsSubsequence(_, _)
IsSubsequence(a, b) ==
    IF a = <<>> THEN TRUE
    ELSE IF b = <<>> THEN FALSE
    ELSE IF Head(a) = Head(b) THEN IsSubsequence(Tail(a), Tail(b))
    ELSE IsSubsequence(a, Tail(b))

HasUrlSeed(r) == r.url_seed # PyNone
HasSiteSeed(r) == r.site_seed # PyNone

\* C16: every request sent to the keyword-idea service carries at most 10 geo
\* targets, namely the first 10 of the validated list, which are entries of
\* the input in input order, and exactly one seed: the URL seed, or the site
\* seed when the request has no URL seed to set; never both.
C16_RequestCappedOneSeed ==
    \A k \in DOMAIN issued :
        /\ Len(issued[k].geo_target_constants) <= GeoTargetLimit
        /\ issued[k].geo_target_constants =
               SubSeq(ValidatedTargets, 1, Min({GeoTargetLimit, Len(ValidatedTargets)}))
        /\ IsSubsequence(issued[k].geo_target_constants,
                         [j \in DOMAIN geo_target_constants |->
                             Stripped(geo_target_constants[j])])
        /\ HasUrlSeed(issued[k]) # HasSiteSeed(issued[k])
        /\ HasSiteSeed(issued[k]) => ads.seed # "url_seed"
        /\ ads.seed = "url_seed" =>
               issued[k].url_seed = PyStr(WithProtocol(website_url))

\* a request was sent for an input of 12 valid geo targets: it carries the
\* first 10 and the URL seed
C16_Witness ==
    /\ pc = "kw_done"
    /\ Len(ValidatedTargets) = 12
    /\ Len(issued) = 1
    /\ issued[1].geo_target_constants = [k \in 1..10 |-> PoolId(k)]
    /\ HasUrlSeed(issued[1]) /\ ~HasSiteSeed(issued[1])

\* a URL no reader would take for one: it has no host, or a space in it
Malformed(url) == Domain(url) = "" \/ Contains(url, " ")

\* a URL made of nothing but a scheme and slashes
Hostless(url) ==
    LET bare == Replace(Replace(url, "https:", ""), "http:", "")
    IN  \A k \in 1..Len(bare) : Ch(bare, k) = "/"

NoValidTargets ==
    \A k \in DOMAIN geo_target_constants : ~WellFormed(Stripped(geo_target_constants[k]))

GeoMessages ==
    {"At least one geo target constant is required",
     "No valid geo target constants found",
     "No valid geo target constants found after validation"}

\* the failure raised for a check that failed with the message
Invalid(message) ==
    [type |-> "Exception", message |-> ApiErrorHead \o ": " \o message,
     cause |-> [type |-> "ValueError", str |-> message]]

\* C17 (as claimed): a call with a missing customer id, with no valid geo
\* target or with a malformed seed URL raises, and no request is sent.
C17_BadInputRaisesBeforeCall ==
    (IdeasEnded /\ (~Truthy(customer_id) \/ NoValidTargets \/ Malformed(website_url)))
        => (pc = "kw_raised" /\ issued = <<>>)

\* C17 (amended): a call with a missing customer id, with no valid geo target
\* or with a seed URL that has no host (empty, or a scheme and slashes only)
\* raises, and no request is sent. The failure tells the failed check, the
\* first in the order customer id, geo targets, URL, by its message and has a
\* ValueError as cause; a failure raised after a request was sent has another
\* message and another cause.
C17_HostlessOrMissingRaisesBeforeCall ==
    IdeasEnded =>
        /\ (~Truthy(customer_id) \/ NoValidTargets \/ Hostless(website_url))
               => (pc = "kw_raised" /\ issued = <<>>)
        /\ ~Truthy(customer_id) <=> failure = Invalid("Customer ID is required")
        /\ (Truthy(customer_id) /\ NoValidTargets)
               <=> \E m \in GeoMessages : failure = Invalid(m)
        /\ (Truthy(customer_id) /\ ~NoValidTargets /\ ads.setup = "ok"
               /\ Hostless(website_url))
               <=> failure = Invalid("Invalid website URL: " \o website_url)
        /\ (pc = "kw_raised" /\ issued # <<>>) =>
               /\ failure.cause.type # "ValueError"
               /\ failure.cause = ads.remote.ex

\* a call whose customer id and geo targets are fine and whose URL is a bare
\* scheme raised the invalid-URL failure without sending a request
C17_Witness ==
    /\ pc = "kw_raised"
    /\ Truthy(customer_id) /\ ~NoValidTargets
    /\ website_url = "https://"
    /\ issued = <<>>
    /\ failure = Invalid("Invalid website URL: https://")

\* C29: the geo targets of every request sent are pairwise distinct, each is
\* of the form geoTargetConstants/<id>, and they come in the order of the
\* input, whatever the input list, lists that hold the same identifier twice
\* with different whitespace around it included.
C29_RequestTargetsDistinct ==
    \A k \in DOMAIN issued :
        LET sent == issued[k].geo_target_constants
        IN  /\ \A a, b \in DOMAIN sent : a # b => sent[a] # sent[b]
            /\ \A a \in DOMAIN sent :
                   StartsAt(sent[a], 1, GeoPrefix) /\ Len(sent[a]) > Len(GeoPrefix)
            /\ IsSubsequence(sent, [j \in DOMAIN geo_target_constants |->
                                       Stripped(geo_target_constants[j])])

\* C18: when the remote call fails, the function raises a failure whose cause
\* is the original error and whose message names the error's code, followed
\* by the invalid-argument guidance for INVALID_ARGUMENT and the
\* permission-denied guidance for PERMISSION_DENIED; it returns no ideas.
C18_RemoteFailureClassified ==
    (IdeasEnded /\ issued # <<>> /\ ads.remote.kind = "raises") =>
        /\ pc = "kw_raised"
        /\ results = NotReturned
        /\ failure.cause = ads.remote.ex
        /\ ads.remote.ex.type = "GoogleAdsException" =>
              /\ Contains(failure.message, ads.remote.ex.code)
              /\ ads.remote.ex.code = "INVALID_ARGUMENT"
                    => Contains(failure.message, InvalidArgumentGuidance)
              /\ ads.remote.ex.code = "PERMISSION_DENIED"
                    => Contains(failure.message, PermissionDeniedGuidance)

\* ---------------------------------------------------------------------------
\* csv_export.py: the CSV of a list of keyword ideas and the top of the list
\* ---------------------------------------------------------------------------

TopK == 500

\* lines 24-31 and 35: the header line csv.DictWriter writes
CsvHeader ==
    "keyword,avg_monthly_searches,competition,competition_index,"
        \o "low_top_of_page_bid_micros,high_top_of_page_bid_micros\r\n"

\* idea.get("avg_monthly_searches", 0) of csv_export.py lines 41 and 67
Volume(idea) ==
    IF "avg_monthly_searches" \in DOMAIN idea THEN idea.avg_monthly_searches ELSE 0

\* lines 39-47: one row; the ideas of the model carry a keyword without
\* delimiter or quote and a volume, the competition falls back to its default
\* and the three absent numbers are written as empty cells
CsvRow(idea) ==
    idea.keyword \o "," \o ToString(Volume(idea)) \o ",UNKNOWN,,,\r\n"

RECURSIVE CsvRows(_)
CsvRows(ideas) ==
    IF ideas = <<>> THEN "" ELSE CsvRow(Head(ideas)) \o CsvRows(Tail(ideas))

\* lines 10-49
keyword_ideas_to_csv(keyword_ideas) ==
    IF keyword_ideas = <<>> THEN "" ELSE CsvHeader \o CsvRows(keyword_ideas)

\* lines 65-69 without the sort
FirstPosition(ideas) == 1

\* the position of the first idea of the largest volume
FirstLargest(ideas) ==
    CHOOSE k \in 1..Len(ideas) :
        /\ \A j \in 1..Len(ideas) : Volume(ideas[j]) <= Volume(ideas[k])
        /\ \A j \in 1..(k - 1) : Volume(ideas[j]) < Volume(ideas[k])

Without(ideas, k) == SubSeq(ideas, 1, k - 1) \o SubSeq(ideas, k + 1, Len(ideas))

\* lines 65-69: sorted(..., reverse=True) is stable, ideas of equal volume
\* keep their order
RECURSIVE SortedByVolume(_)
SortedByVolume(ideas) ==
    IF ideas = <<>> THEN <<>>
    ELSE LET k == FirstLargest(ideas)
         IN  <<ideas[k]>> \o SortedByVolume(Without(ideas, k))

\* lines 52-70
get_top_keywords_by_volume(keyword_ideas, top_k) ==
    LET sorted_keywords == SortedByVolume(keyword_ideas)
    IN  SubSeq(sorted_keywords, 1,
               IF top_k < Len(sorted_keywords) THEN top_k ELSE Len(sorted_keywords))

\* ---------------------------------------------------------------------------
\* app.py: one click on "Generate Keywords" (lines 132-288)
\* ---------------------------------------------------------------------------

MaxRuns == 2         \* most clicks in one session

\* what the page can hold at a click: the blog text, the website URL and
\* whether get_env_var finds all six required variables
PageInputs ==
    [blog_content : {"", " \n", "a post"},
     website_url : {"", "https://example.com"},
     env : BOOLEAN]

\* what resolve_countries can return to the page
GeoResults ==
    {<<>>, <<"geoTargetConstants/2124">>,
     <<"geoTargetConstants/2124", "geoTargetConstants/2840">>}

\* what generate_keyword_ideas can return to the page
IdeaLists == {[k \in 1..Len(rows) |-> KeywordData(rows[k])] : rows \in Rows}

\* what categorize_keywords_with_gpt52 can return to the page: a categorization,
\* an error record, or whatever other JSON value the response text held
GptResults ==
    {PyDict([k \in {"primary"} |-> PyList(<<>>)]),
     ErrorRecord(MissingInputs),
     ErrorRecord(CallFailureHead \o "timeout"),
     PyInt(5)}

InitApp ==
    /\ appIdle
    /\ pairIdle
    /\ topIdle
    /\ pc = "app_idle"
    /\ geoIdle
    /\ matchIdle
    /\ catIdle
    /\ ideaIdle

\* the button is pressed with the page holding page
Click(page) ==
    /\ pc = "app_idle"
    /\ runs < MaxRuns
    /\ runs' = runs + 1
    /\ inputs' = page
    /\ run' = NoRun
    /\ events' = <<>>

Called(name) == events' = Append(events, name)

\* lines 133-140
NoBlogContent ==
    \E page \in PageInputs :
        /\ Click(page)
        /\ Blank(page.blog_content)
        /\ ended' = "no_blog"
        /\ UNCHANGED <<pc, session, gpt_source, appRest>>

\* lines 133 and 142-148
NoWebsiteUrl ==
    \E page \in PageInputs :
        /\ Click(page)
        /\ ~Blank(page.blog_content)
        /\ Blank(page.website_url)
        /\ ended' = "no_url"
        /\ UNCHANGED <<pc, session, gpt_source, appRest>>

\* lines 133 and 150-167
MissingVars ==
    \E page \in PageInputs :
        /\ Click(page)
        /\ ~Blank(page.blog_content)
        /\ ~Blank(page.website_url)
        /\ ~page.env
        /\ ended' = "missing_env"
        /\ UNCHANGED <<pc, session, gpt_source, appRest>>

\* lines 133-169: the inputs pass and the try block is entered
StartRun ==
    \E page \in PageInputs :
        /\ Click(page)
        /\ ~Blank(page.blog_content)
        /\ ~Blank(page.website_url)
        /\ page.env
        /\ pc' = "app_client"
        /\ UNCHANGED <<ended, session, gpt_source, appRest>>

\* lines 264-288: the handler reports the exception and the run is over
Handled ==
    /\ pc' = "app_idle"
    /\ ended' = "exception"

\* lines 172-175
CreateAdsClient ==
    /\ pc = "app_client"
    /\ Called("create_google_ads_client")
    /\ pc' = "app_resolve"
    /\ UNCHANGED <<session, inputs, run, ended, gpt_source, runs, appRest>>

\* line 172: GoogleAdsClient.load_from_dict refuses the configuration
CreateAdsClientRaises ==
    /\ pc = "app_client"
    /\ Called("create_google_ads_client")
    /\ Handled
    /\ UNCHANGED <<session, inputs, run, gpt_source, runs, appRest>>

\* line 180: if not geo_targets
NeverUnresolved(targets) == FALSE

Unresolved(targets) == targets = <<>>

\* lines 179-203
ResolveCountries ==
    /\ pc = "app_resolve"
    /\ Called("resolve_countries")
    /\ \E targets \in GeoResults :
          /\ run' = [run EXCEPT !.geo_targets = targets]
          /\ IF Unresolved(targets)
             THEN pc' = "app_idle" /\ ended' = "no_geo"
             ELSE pc' = "app_ideas" /\ UNCHANGED ended
    /\ UNCHANGED <<session, inputs, gpt_source, runs, appRest>>

\* line 179: resolve_countries raises (its cache file cannot be written)
ResolveCountriesRaises ==
    /\ pc = "app_resolve"
    /\ Called("resolve_countries")
    /\ Handled
    /\ UNCHANGED <<session, inputs, run, gpt_source, runs, appRest>>

\* lines 206-221
GenerateIdeas ==
    /\ pc = "app_ideas"
    /\ Called("generate_keyword_ideas")
    /\ \E keyword_ideas \in IdeaLists :
          /\ run' = [run EXCEPT !.keyword_ideas = keyword_ideas]
          /\ IF keyword_ideas = <<>>
             THEN pc' = "app_idle" /\ ended' = "no_ideas"
             ELSE pc' = "app_export" /\ UNCHANGED ended
    /\ UNCHANGED <<session, inputs, gpt_source, runs, appRest>>

\* line 206: generate_keyword_ideas raises
GenerateIdeasRaises ==
    /\ pc = "app_ideas"
    /\ Called("generate_keyword_ideas")
    /\ Handled
    /\ UNCHANGED <<session, inputs, run, gpt_source, runs, appRest>>

\* lines 223-239: the ideas and their CSV are stored in the session and the CSV
\* of the top keywords is prepared for the language model
ExportCsv ==
    /\ pc = "app_export"
    /\ session' = [session EXCEPT
                      !.keyword_ideas = run.keyword_ideas,
                      !.csv_content = keyword_ideas_to_csv(run.keyword_ideas)]
    /\ run' = [run EXCEPT !.top_csv =
                  keyword_ideas_to_csv(get_top_keywords_by_volume(run.keyword_ideas, TopK))]
    /\ events' = events \o <<"keyword_ideas_to_csv", "get_top_keywords_by_volume",
                             "keyword_ideas_to_csv">>
    /\ pc' = "app_openai"
    /\ UNCHANGED <<inputs, ended, gpt_source, runs, appRest>>

\* line 241
CreateOpenAiClient ==
    /\ pc = "app_openai"
    /\ Called("create_openai_client")
    /\ pc' = "app_categorize"
    /\ UNCHANGED <<session, inputs, run, ended, gpt_source, runs, appRest>>

\* line 241: os.getenv has no OPENAI_API_KEY although get_env_var found one in
\* the secrets (openai_client.py lines 13-15)
CreateOpenAiClientRaises ==
    /\ pc = "app_openai"
    /\ Called("create_openai_client")
    /\ Handled
    /\ UNCHANGED <<session, inputs, run, gpt_source, runs, appRest>>

\* line 251: "error" in gpt_results raises TypeError unless the result is a
\* container or a string
Searchable(gpt_results) == gpt_results.t \in {"dict", "list", "str"}

\* lines 242-262
Categorize ==
    /\ pc = "app_categorize"
    /\ Called("categorize_keywords_with_gpt52")
    /\ \E gpt_results \in GptResults :
          /\ session' = [session EXCEPT !.gpt_results = gpt_results]
          /\ ended' = IF Searchable(gpt_results) THEN "complete" ELSE "exception"
    /\ gpt_source' = run.keyword_ideas
    /\ pc' = "app_idle"
    /\ UNCHANGED <<inputs, run, runs, appRest>>

NextApp ==
    \/ NoBlogContent
    \/ NoWebsiteUrl
    \/ MissingVars
    \/ StartRun
    \/ CreateAdsClient
    \/ CreateAdsClientRaises
    \/ ResolveCountries
    \/ ResolveCountriesRaises
    \/ GenerateIdeas
    \/ GenerateIdeasRaises
    \/ ExportCsv
    \/ CreateOpenAiClient
    \/ CreateOpenAiClientRaises
    \/ Categorize

SpecApp == InitApp /\ [][NextApp]_vars

\* the calls of a complete run, in the order of lines 172-242
CallOrder ==
    <<"create_google_ads_client", "resolve_countries", "generate_keyword_ideas",
      "keyword_ideas_to_csv", "get_top_keywords_by_volume", "keyword_ideas_to_csv",
      "create_openai_client", "categorize_keywords_with_gpt52">>

IsPrefix(s, t) == Len(s) <= Len(t) /\ s = SubSeq(t, 1, Len(s))

WasCalled(name) == \E k \in 1..Len(events) : events[k] = name

\* C20: in every run of the page the calls occur in the one fixed order
\* geo-target resolution, keyword-idea call, CSV transformation, language-model
\* categorization; the keyword-idea call is issued only after resolution
\* returned a non-empty list, the language-model call only after the
\* keyword-idea call returned a non-empty list, and never without it.
C20_CallsInFixedOrder ==
    /\ IsPrefix(events, CallOrder)
    /\ WasCalled("generate_keyword_ideas") => run.geo_targets # <<>>
    /\ WasCalled("keyword_ideas_to_csv") => run.keyword_ideas # <<>>
    /\ WasCalled("categorize_keywords_with_gpt52") =>
          /\ WasCalled("generate_keyword_ideas")
          /\ run.keyword_ideas # <<>>
          /\ run.top_csv # ""

\* the run last ended stopped short: nothing resolved, no ideas, or an
\* exception before the language model was called
EndedShort ==
    /\ pc = "app_idle"
    /\ ended \in {"no_geo", "no_ideas", "exception"}
    /\ ~WasCalled("categorize_keywords_with_gpt52")

\* C30: between runs the stored categorization is absent or is the one of
\* the stored keyword ideas, and a run that stops short (no geo targets, no
\* keyword ideas, an exception from the keyword-idea call or from the creation
\* of the language-model client) leaves the session as it found it: after a
\* first run that stopped short the session is still the fresh one.
C30_FailedRunLeavesSession ==
    /\ pc = "app_idle" =>
           (session.gpt_results = PyNone \/ gpt_source = session.keyword_ideas)
    /\ (EndedShort /\ runs = 1) => session = FreshSession

\* a second run of the session went all the way to the categorization
C20_Witness ==
    /\ runs = MaxRuns
    /\ ended = "complete"
    /\ pc = "app_idle"
    /\ events = CallOrder
    /\ Len(run.geo_targets) = 2
    /\ Len(run.keyword_ideas) = 2

----------------------------------------------------------------------------
(* resolve_countries: the one load and the one save of a batch *)

\* C25: in a batch the cache is loaded once, before any name is processed,
\* and saved once, after the last name, in that order: a step loads only if
\* nothing was loaded, processed or saved yet, a step processes a name only
\* between the load and the save, a step saves (and only a save touches the
\* file) only if the load is done, every name is processed and no save was
\* made, and a batch that returns has made its save, whatever it resolved
\* and however short its input.
C25_OneLoadThenOneSave ==
    [][/\ loadedFrom' # loadedFrom =>
              loadedFrom = "none" /\ outcome = <<>> /\ saved = "pending"
       /\ outcome' # outcome => loadedFrom # "none" /\ saved = "pending"
       /\ saved' # saved =>
              /\ saved = "pending"
              /\ loadedFrom # "none"
              /\ Len(outcome) = Len(names)
       /\ file' # file => saved' # saved
       /\ pc' = "done" => loadedFrom' # "none" /\ saved' # "pending"]_vars

\* a batch with an empty input list loaded the cache and saved it all the same
C25_Witness ==
    /\ pc = "done"
    /\ names = <<>>
    /\ loadedFrom = "json"
    /\ saved = "ok"
    /\ calls = <<>>
    /\ file = Written(loaded)

----------------------------------------------------------------------------
(* Several resolve_countries batches on one cache file: two workers, each
   running one batch after another, their steps interleaved at will. A load
   and a save are each taken as one step on the file. *)

MaxBatches == 2      \* most batches started by the two workers together
MaxBatchNames == 2   \* longest input list of such a batch

\* the cache file the workers find
SharedFiles ==
    {[kind |-> k, val |-> PyNone] : k \in {"missing", "badutf8"}}
        \cup {[kind |-> "json", val |-> v] :
                 v \in {EmptyDict,
                        PyDict([k \in {"Canada"} |-> PyStr("geoTargetConstants/2124")]),
                        PyDict([k \in {"Jamaica"} |-> PyStr(LoneSurrogate)]),
                        PyNone, PyList(<<>>)}}

InitBatches ==
    /\ pairIdle
    /\ topIdle
    /\ file \in SharedFiles
    /\ pc = "batches"
    /\ names = <<>>
    /\ i = 1
    /\ cache = EmptyDict
    /\ geo_targets = <<>>
    /\ exc = "none"
    /\ saved = "pending"
    /\ loadedFrom = "none"
    /\ loaded = PyNone
    /\ calls = <<>>
    /\ outcome = <<>>
    /\ matchIdle
    /\ catIdle
    /\ ideaIdle
    /\ appIdle

\* worker w has no batch under way
Free(w) == batches[w].pc \in {"idle", "done", "raised"}

\* worker w goes on as record b
Becomes(w, b) == batches' = [batches EXCEPT ![w] = b]

\* worker w calls resolve_countries with the list country_names
Begin(w, country_names) ==
    /\ Free(w)
    /\ launched < MaxBatches
    /\ launched' = launched + 1
    /\ overlap' = (overlap \/ \E v \in Workers \ {w} : ~Free(v))
    /\ UNCHANGED <<file, persisted, spoiled, pc, pairRest>>

\* lines 115-116
BatchLoads(w) ==
    \E country_names \in SeqsUpTo(PlaceNames, MaxBatchNames) :
        /\ Begin(w, country_names)
        /\ ~LoadRaises(file)
        /\ Becomes(w, [NoBatch EXCEPT !.pc = "loop", !.names = country_names,
                                      !.cache = LoadResult(file)])

\* line 115: load_cache raises
BatchLoadRaises(w) ==
    \E country_names \in SeqsUpTo(PlaceNames, MaxBatchNames) :
        /\ Begin(w, country_names)
        /\ LoadRaises(file)
        /\ Becomes(w, [NoBatch EXCEPT !.pc = "raised", !.names = country_names])

\* the name the loop of worker w is at
BatchAtName(w) == batches[w].pc = "loop" /\ batches[w].i <= Len(batches[w].names)

BatchName(w) == batches[w].names[batches[w].i]

\* lines 119-121 of worker w with what per-name resolution returned and the
\* cache it left
BatchIteration(w, ret, c, resolved) ==
    /\ Becomes(w, [batches[w] EXCEPT
                      !.geo_targets = Collect(batches[w].geo_targets, ret),
                      !.cache = c,
                      !.fresh = IF resolved THEN @ \cup {BatchName(w)} ELSE @,
                      !.i = @ + 1])
    /\ UNCHANGED <<file, launched, overlap, persisted, spoiled, pc, pairRest>>

\* lines 43-44 raise TypeError
BatchLookupRaises(w) ==
    /\ BatchAtName(w)
    /\ \/ InRaises(batches[w].cache)
       \/ /\ ~InRaises(batches[w].cache)
          /\ InCache(BatchName(w), batches[w].cache)
          /\ ItemRaises(batches[w].cache)
    /\ Becomes(w, [batches[w] EXCEPT !.pc = "raised"])
    /\ UNCHANGED <<file, launched, overlap, persisted, spoiled, pc, pairRest>>

\* lines 43-44
BatchHit(w) ==
    /\ BatchAtName(w)
    /\ ~InRaises(batches[w].cache)
    /\ InCache(BatchName(w), batches[w].cache)
    /\ ~ItemRaises(batches[w].cache)
    /\ BatchIteration(w, batches[w].cache.d[BatchName(w)], batches[w].cache, FALSE)

\* lines 47-55: the name of worker w is not in its cache
BatchMiss(w) ==
    /\ BatchAtName(w)
    /\ ~InRaises(batches[w].cache)
    /\ ~InCache(BatchName(w), batches[w].cache)

\* lines 58-93
BatchResolves(w) ==
    /\ BatchMiss(w)
    /\ ~ItemRaises(batches[w].cache)
    /\ \E sugg \in SeqsUpTo(Candidates, MaxSuggestions) \ {<<>>} :
          LET resource_name == PyStr(BestMatch(sugg))
          IN  BatchIteration(w, resource_name,
                             Remember(batches[w].cache, BatchName(w), resource_name),
                             TRUE)

\* lines 58-93 on a cache that is a list: the write raises, lines 103-105
\* return None
BatchWriteRaises(w) ==
    /\ BatchMiss(w)
    /\ ItemRaises(batches[w].cache)
    /\ BatchIteration(w, PyNone, batches[w].cache, FALSE)

\* lines 95-97
BatchNoSuggestions(w) ==
    /\ BatchMiss(w)
    /\ BatchIteration(w, PyNone, batches[w].cache, FALSE)

\* lines 99-105
BatchServiceRaises(w) ==
    /\ BatchMiss(w)
    /\ \E e \in ServiceExceptions : BatchIteration(w, PyNone, batches[w].cache, FALSE)

\* line 124 is reached by worker w
BatchAtSave(w) == batches[w].pc = "loop" /\ batches[w].i > Len(batches[w].names)

\* the entries worker w resolved in its batch
FreshEntries(w) == {<<n, batches[w].cache.d[n]>> : n \in batches[w].fresh}

\* lines 124-126, the write succeeds
BatchSaves(w) ==
    /\ BatchAtSave(w)
    /\ ~Unencodable(batches[w].cache)
    /\ file' = Written(batches[w].cache)
    /\ persisted' = persisted \cup FreshEntries(w)
    /\ Becomes(w, [batches[w] EXCEPT !.pc = "done", !.saved = "ok"])
    /\ UNCHANGED <<launched, overlap, spoiled, pc, pairRest>>

\* lines 28-32, open or write raises OSError
BatchSaveFailsIO(w) ==
    /\ BatchAtSave(w)
    /\ file' \in {file, Truncated}
    /\ spoiled' = (spoiled \/ file' = Truncated)
    /\ Becomes(w, [batches[w] EXCEPT !.pc = "done", !.saved = "ioerror"])
    /\ UNCHANGED <<launched, overlap, persisted, pc, pairRest>>

\* lines 28-32, the write raises UnicodeEncodeError
BatchSaveRaises(w) ==
    /\ BatchAtSave(w)
    /\ Unencodable(batches[w].cache)
    /\ file' = Truncated
    /\ spoiled' = TRUE
    /\ Becomes(w, [batches[w] EXCEPT !.pc = "raised", !.saved = "raised"])
    /\ UNCHANGED <<launched, overlap, persisted, pc, pairRest>>

NextBatches ==
    \E w \in Workers :
        \/ BatchLoads(w)
        \/ BatchLoadRaises(w)
        \/ BatchLookupRaises(w)
        \/ BatchHit(w)
        \/ BatchResolves(w)
        \/ BatchWriteRaises(w)
        \/ BatchNoSuggestions(w)
        \/ BatchServiceRaises(w)
        \/ BatchSaves(w)
        \/ BatchSaveFailsIO(w)
        \/ BatchSaveRaises(w)

SpecBatches == InitBatches /\ [][NextBatches]_vars

\* the entries of a cache file that holds an object, none otherwise
Entries(f) ==
    IF f.kind = "json" /\ f.val.t = "dict"
    THEN {<<n, f.val.d[n]>> : n \in DOMAIN f.val.d}
    ELSE {}

\* the entries of the cache a worker holds in memory
Held(b) == IF b.cache.t = "dict" THEN {<<n, b.cache.d[n]>> : n \in DOMAIN b.cache.d} ELSE {}

\* C24: the entries of the cache never change: in every step of a batch the
\* entries its cache holds in memory are still there after the step, with
\* their values, whatever the service answers; and as long as the batches run
\* one after another and no failed write has truncated the file,
\* every entry of the file is still in the file after the step, so that no
\* later batch resolves its name anew.
C24_EntriesNeverChange ==
    [][/\ \A w \in Workers :
              (~Free(w) /\ batches'[w].names = batches[w].names
                        /\ batches'[w].i >= batches[w].i)
                  => Held(batches[w]) \subseteq Held(batches'[w])
       /\ (~overlap' /\ ~spoiled') => Entries(file) \subseteq Entries(file')
       /\ \A w \in Workers :
              (~overlap' /\ Free(w) /\ ~Free(w)')
                  => Entries(file) \subseteq Held(batches'[w])]_vars

\* a second batch, run after the first, was asked for a name the first had
\* resolved and saved, and left its entry as it was
C24_Witness ==
    /\ ~overlap
    /\ launched = 2
    /\ batches["first"].pc = "done" /\ batches["first"].fresh = {"Fakeland"}
    /\ batches["second"].pc = "done" /\ batches["second"].names = <<"Fakeland">>
    /\ batches["second"].fresh = {}
    /\ batches["second"].saved = "ok"
    /\ persisted = {<<"Fakeland", PyStr("geoTargetConstants/2840")>>}
    /\ persisted \subseteq Entries(file)

\* every worker is free and every batch started has saved
AllSaved == \A w \in Workers : batches[w].pc \in {"idle", "done"} /\ batches[w].saved # "ioerror"

\* C26: batches run one after the other keep every entry of each: as long as
\* no batch has loaded while another was under way and no failed write has
\* truncated the file, every entry resolved by a batch that saved is in the
\* file; and (the witness) two batches that both load before either saves
\* can lose one.
C26_SerialBatchesKeepAll ==
    (~overlap /\ ~spoiled) => persisted \subseteq Entries(file)

\* two batches loaded before either saved, each resolved a name and saved,
\* and the entry of the first is not in the file
C26_Witness ==
    /\ overlap
    /\ launched = 2
    /\ AllSaved
    /\ ~spoiled
    /\ batches["first"].fresh = {"Canada"} /\ batches["first"].saved = "ok"
    /\ batches["second"].fresh = {"Fakeland"} /\ batches["second"].saved = "ok"
    /\ \E e \in persisted : e[1] = "Canada" /\ e \notin Entries(file)
    /\ file.kind = "json" /\ DOMAIN file.val.d = {"Fakeland"}

----------------------------------------------------------------------------
(* get_top_keywords_by_volume on its own: csv_export.py lines 52-70 *)

MaxIdeas == 3        \* longest list of keyword ideas passed
MaxTopK == 4         \* largest top_k passed

\* keyword ideas with a volume and without one
Ideas ==
    [keyword : {"a", "b", "c"}, avg_monthly_searches : {0, 10}]
        \cup [keyword : {"a", "b", "c"}]

InitTop ==
    /\ \E l \in SeqsUpTo(Ideas, MaxIdeas), n \in 0..MaxTopK :
          top = [keyword_ideas |-> l, top_k |-> n, given |-> l, returned |-> NotReturned]
    /\ pc = "top_start"
    /\ geoIdle
    /\ matchIdle
    /\ catIdle
    /\ ideaIdle
    /\ appIdle
    /\ pairIdle

\* lines 65-70: sorted() builds a new list, the list passed stays as it is
TopReturns ==
    /\ pc = "top_start"
    /\ top' = [top EXCEPT !.returned =
                   PyList(get_top_keywords_by_volume(top.keyword_ideas, top.top_k))]
    /\ pc' = "top_done"
    /\ UNCHANGED topRest

NextTop == TopReturns

SpecTop == InitTop /\ [][NextTop]_vars

\* f picks the returned entries out of the list passed: each returned entry
\* is the entry at its own position of the input, the volumes do not increase,
\* entries of equal volume come in input order, and no entry left out has a
\* larger volume than one returned
Picks(f, in, out) ==
    /\ \A j \in DOMAIN out : out[j] = in[f[j]]
    /\ \A j, h \in DOMAIN out : j < h =>
           \/ Volume(out[j]) > Volume(out[h])
           \/ Volume(out[j]) = Volume(out[h]) /\ f[j] < f[h]
    /\ \A p \in DOMAIN in : (\A j \in DOMAIN out : f[j] # p) =>
           \A j \in DOMAIN out : Volume(in[p]) <= Volume(out[j])

\* C28: get_top_keywords_by_volume(ideas, k) returns, for k >= 0, exactly
\* min(k, len(ideas)) entries of the input, in non-increasing order of volume,
\* a missing volume counting as 0, entries of equal volume in their input
\* order, no entry left out having a larger volume than one returned; and the
\* list passed is left as it was.
C28_TopKByVolume ==
    pc = "top_done" =>
        /\ top.returned.t = "list"
        /\ Len(top.returned.l)
               = (IF top.top_k < Len(top.given) THEN top.top_k ELSE Len(top.given))
        /\ \E f \in [DOMAIN top.returned.l -> DOMAIN top.given] :
               Picks(f, top.given, top.returned.l)
        /\ top.keyword_ideas = top.given

\* of three ideas, the second without a volume and the third of the same
\* volume as the first, the top two are the first and the third, in that order
C28_Witness ==
    /\ pc = "top_done"
    /\ top.top_k = 2
    /\ top.given = <<[keyword |-> "a", avg_monthly_searches |-> 10], [keyword |-> "b"],
                     [keyword |-> "c", avg_monthly_searches |-> 10]>>
    /\ top.returned = PyList(<<[keyword |-> "a", avg_monthly_searches |-> 10],
                               [keyword |-> "c", avg_monthly_searches |-> 10]>>)

====
